---------------------------- MODULE Spec2Model ----------------------------
(***************************************************************************)
(* Double-buffered physics / render pipeline with a lock-protected event  *)
(* queue (src/Thread/Thread.cpp, src/unnamed/part_001).                    *)
(*                                                                         *)
(* Coordinates and velocities are integers counted in tenths of a cell,   *)
(* so 40.0 is 400 and the velocity 0.5 is 5; the screen bounds 79 and 24   *)
(* are 790 and 240.  (int)x of the source is truncation toward zero of    *)
(* x / 10.                                                                 *)
(*                                                                         *)
(* Every block the source runs under a std::mutex is one action; work the  *)
(* source does outside a lock is split at the shared reads and writes:    *)
(* one action per entity copy and per entity integration of a physics     *)
(* step, one action per entity read of a render pass.                     *)
(***************************************************************************)
EXTENDS Integers, Sequences, FiniteSets, TLC

\* Length of the entity tables (1000 in the source), also the "wall" id.
MAX_ENTITIES == 3
\* Physics steps the free-running physics thread takes before it idles.
MaxSteps == 3
\* Iterations of the tick loop of part_001's main (500 in the source).
MaxTicks == 3
\* Events the producer of the queue specification pushes.
MaxPush == 4
\* Calls of Scene::CreateEntity in the entity-table specification.
MaxCreate == 4
\* Physics steps of the end-to-end scenario.
MaxScenarioSteps == 530
MaxBounceSteps == 570
MaxUpdates == 3

\* Screen bounds of the boundary tests, in tenths.
XMax == 790
YMax == 240
\* Health lost per wall hit.
Penalty == 10

Entities == 0 .. (MAX_ENTITIES - 1)

VARIABLES
    \* ---- Scene -------------------------------------------------------
    m_entity_active,     \* [Entities -> BOOLEAN]
    m_transforms,        \* [0..1 -> [Entities -> [x, y]]], the double buffer
    m_physics,           \* [Entities -> [vx, vy]]
    m_renders,           \* [Entities -> symbol]
    m_healths,           \* [Entities -> Int]
    m_frontBufferIndex,  \* 0 or 1
    \* ---- EventQueue --------------------------------------------------
    m_queue,             \* sequence of CollisionEvent records [a, b]
    \* ---- physics thread ----------------------------------------------
    ppc,                 \* position of the physics thread
    pI,                  \* loop variable i of the physics step
    pFront,              \* front index the step loaded (back is 1 - pFront)
    \* ---- render thread -----------------------------------------------
    rpc,                 \* position of the render thread
    rI,                  \* loop variable i of the render pass
    rFront,              \* front index the pass loaded
    packets,             \* packets of the pass so far
    hudLine,             \* "[Entity i] HP: h" entries Draw printed so far
    \* ---- main thread -------------------------------------------------
    mpc,                 \* position of the main thread
    tick,                \* loop variable i of part_001's tick loop
    \* ---- synchronisation ---------------------------------------------
    running,             \* std::atomic<bool> running (Thread.cpp main)
    g_Run,               \* std::atomic<bool> g_Run (part_001)
    g_physicsWork,
    g_renderWork,
    \* ---- observation (history) variables -----------------------------
    stepNo,              \* number of physics steps started
    bufGen,              \* [0..1 -> step that last wrote into the buffer]
    rGenStart,           \* bufGen[rFront] when the current pass started
    pushed,              \* every event pushed, in order
    popped,              \* every event a pop returned, in order
    lastPop,             \* result of the last TryPop: <<event>> or NullOpt
    hitLog,              \* "[Event] Entity a hit a wall! HP: h" lines printed
    seedHealth,          \* health each entity was seeded with
    drainReturned,       \* a drain call has returned
    pushedSinceReturn,   \* a Push happened since the last drain returned
    idleDrain,           \* the last drain call to return followed another
                         \* call with no Push in between
    created,             \* every id Scene::CreateEntity returned, in order
    \* ---- synchronisation of Thread.cpp's handshake threads ------------
    g_running,           \* std::atomic<bool> g_running
    g_requestPhysics,
    g_physicsDone,
    \* ---- observation of calls and steps --------------------------------
    drainStartPushed,    \* number of events pushed when the current drain
                         \* call was entered
    vxFlipStep,          \* [Entities -> step in which the x velocity last
                         \* changed sign, 0 if never]
    \* ---- part_000: the game object and the two worker threads ---------
    objAlive,            \* the CGameObject of main exists (new .. delete)
    m_iRecCount,         \* CBase::m_iRecCount
    m_uiUpdateNums,      \* CGameObject::m_uiUpdateNums
    m_uiRenderNums,      \* CGameObject::m_uiRenderNums
    m_vecReserveGameObjects,   \* CPhysicsThread: pointers written by main
    m_vecCurrentGameObjects,   \* CPhysicsThread: pointers being processed
    m_vecEnterNums,      \* CRenderThread: pointers written by main
    m_vecDrawNums,       \* CRenderThread: pointers being drawn
    updReg,              \* value "++m_uiUpdateNums" has read
    updateCalls,         \* number of completed Update() calls
    releaseEntries,      \* every value of m_iRecCount a Release call was
                         \* entered with
    deletedBy,           \* thread that deleted the object, "none" before
    usedAfterFree        \* a member function ran on the deleted object

staticVars == <<m_entity_active, m_renders, seedHealth>>
physVars   == <<ppc, pI, pFront>>
rendVars   == <<rpc, rI, rFront, packets, rGenStart, hudLine>>
mainVars   == <<mpc, tick>>
flagVars   == <<running, g_Run, g_physicsWork, g_renderWork>>
pushVars   == <<m_queue, pushed, pushedSinceReturn>>
popVars    == <<popped, lastPop, hitLog, drainReturned, idleDrain>>
createVars == <<created>>
thVars     == <<g_running, g_requestPhysics, g_physicsDone>>
callVars   == <<drainStartPushed>>
flipVars   == <<vxFlipStep>>
countVars  == <<m_uiUpdateNums, m_uiRenderNums, updReg, updateCalls>>
physVecs   == <<m_vecReserveGameObjects, m_vecCurrentGameObjects>>
rendVecs   == <<m_vecEnterNums, m_vecDrawNums>>
refVars    == <<objAlive, m_iRecCount, releaseEntries, deletedBy>>
objVars    == <<objAlive, m_iRecCount, m_uiUpdateNums, m_uiRenderNums,
               m_vecReserveGameObjects, m_vecCurrentGameObjects,
               m_vecEnterNums, m_vecDrawNums, updReg, updateCalls,
               releaseEntries, deletedBy, usedAfterFree>>
vars == <<m_entity_active, m_transforms, m_physics, m_renders, m_healths,
          m_frontBufferIndex, m_queue, ppc, pI, pFront, rpc, rI, rFront,
          packets, mpc, tick, running, g_Run, g_physicsWork, g_renderWork,
          stepNo, bufGen, rGenStart, hudLine, pushed, popped, lastPop, hitLog,
          seedHealth, drainReturned, pushedSinceReturn, idleDrain, created,
          g_running, g_requestPhysics, g_physicsDone, drainStartPushed,
          vxFlipStep, objAlive, m_iRecCount, m_uiUpdateNums, m_uiRenderNums,
          m_vecReserveGameObjects, m_vecCurrentGameObjects, m_vecEnterNums,
          m_vecDrawNums, updReg, updateCalls, releaseEntries,
          deletedBy, usedAfterFree>>

-----------------------------------------------------------------------------
(* Component values *)

\* TransformComponent{} and PhysicsComponent{}: value-initialised to zero.
TransformComponent(x, y) == [x |-> x, y |-> y]
PhysicsComponent(vx, vy) == [vx |-> vx, vy |-> vy]
\* RenderComponent's default symbol '\0'.
NulSymbol == "\\0"
\* CollisionEvent{a, b}
CollisionEvent(a, b) == [a |-> a, b |-> b]

\* (int)x for x in tenths: truncation toward zero.
TruncToInt_Floor(x) == x \div 10
TruncToInt(x) == IF x >= 0 THEN x \div 10 ELSE -((-x) \div 10)

\* RenderPacket{symbol, (int)x, (int)y}
RenderPacket(sym, t) == [symbol |-> sym, x |-> TruncToInt(t.x), y |-> TruncToInt(t.y)]

-----------------------------------------------------------------------------
(* Scene *)

\* Scene::Scene(): every table resized to MAX_ENTITIES default values.
SceneTransforms0 == [b \in 0..1 |-> [e \in Entities |-> TransformComponent(0, 0)]]
ScenePhysics0    == [e \in Entities |-> PhysicsComponent(0, 0)]
SceneRenders0    == [e \in Entities |-> NulSymbol]
SceneHealths0    == [e \in Entities |-> 100]
SceneActive0     == [e \in Entities |-> FALSE]

\* Scene::CreateEntity: the first inactive slot, or MAX_ENTITIES when full.
CreateEntityId_LastSlot(active) ==
    IF \E i \in Entities : ~active[i]
    THEN CHOOSE i \in Entities : ~active[i] /\ \A j \in Entities : j < i => active[j]
    ELSE MAX_ENTITIES - 1

CreateEntityId_Largest(active) ==
    IF \E i \in Entities : ~active[i]
    THEN CHOOSE i \in Entities : ~active[i] /\ \A j \in Entities : j > i => active[j]
    ELSE MAX_ENTITIES

CreateEntityId(active) ==
    IF \E i \in Entities : ~active[i]
    THEN CHOOSE i \in Entities : ~active[i] /\ \A j \in Entities : j < i => active[j]
    ELSE MAX_ENTITIES

CreateEntityFlags(active) ==
    LET i == CreateEntityId(active)
    IN  IF i < MAX_ENTITIES THEN [active EXCEPT ![i] = TRUE] ELSE active


\* The seeding of main: a created entity gets its four components.
SeedEntity(sc, t, p, sym, h) ==
    LET i == CreateEntityId(sc.active)
    IN  [active |-> CreateEntityFlags(sc.active),
         transforms |-> [sc.transforms EXCEPT ![0][i] = t],
         physics |-> [sc.physics EXCEPT ![i] = p],
         renders |-> [sc.renders EXCEPT ![i] = sym],
         healths |-> [sc.healths EXCEPT ![i] = h]]

EmptyScene ==
    [active |-> SceneActive0, transforms |-> SceneTransforms0,
     physics |-> ScenePhysics0, renders |-> SceneRenders0,
     healths |-> SceneHealths0]

\* player then mob, as main creates them.
SeedScene(s) ==
    SeedEntity(SeedEntity(EmptyScene, s.pt, s.pv, "@", s.ph), s.mt, s.mv, "M", s.mh)

\* The seeds of main: P at (40.0, 12.0) moving (0.5, 0.2) with 100 HP and
\* M at (10.0, 5.0) moving (-0.3, 0.1) with 50 HP.
MainSeed ==
    [pt |-> TransformComponent(400, 120), pv |-> PhysicsComponent(5, 2), ph |-> 100,
     mt |-> TransformComponent(100, 50),  mv |-> PhysicsComponent(-3, 1), mh |-> 50]

\* Seeds next to the walls, so that a few steps produce collisions: P in the
\* far corner moving out, M in the near corner moving out, low health.
WallSeed ==
    [pt |-> TransformComponent(780, 238), pv |-> PhysicsComponent(50, 5), ph |-> 5,
     mt |-> TransformComponent(2, 10),    mv |-> PhysicsComponent(-3, 0), mh |-> 20]

PipelineSeeds == {MainSeed, WallSeed}

\* The loop variable after skipping the inactive slots from i on
\* ("if (!active[i]) continue;"), MAX_ENTITIES when the loop ends.
NextActive(i) ==
    IF \E j \in Entities : j >= i /\ m_entity_active[j]
    THEN CHOOSE j \in Entities :
            /\ j >= i /\ m_entity_active[j]
            /\ \A k \in Entities : (k >= i /\ k < j) => ~m_entity_active[k]
    ELSE MAX_ENTITIES

-----------------------------------------------------------------------------
(* EventQueue *)

\* EventQueue::Push: push_back under the lock.
QueuePush(q, ev) == Append(q, ev)

\* m_cv.notify_one() of Push: a thread blocked in WaitPop's m_cv.wait goes
\* back to take the lock and test "!m_queue.empty()" again.
NotifyOne_Lost(pc) == pc
NotifyOne(pc) == IF pc = "popblocked" THEN "waitpop" ELSE pc

\* EventQueue::TryPop / part_001's Pop has no wait: it is always ready.
TryPopReady_Waits(q) == q # <<>>
TryPopReady(q) == TRUE

\* What TryPop / Pop returns, a std::optional as a sequence of length 0 or 1:
\* std::nullopt on an empty queue, else the front.
NullOpt == <<>>
TryPopValue_Back(q) == IF q = <<>> THEN NullOpt ELSE <<q[Len(q)]>>
TryPopValue(q) == IF q = <<>> THEN NullOpt ELSE <<Head(q)>>

\* What TryPop / Pop leaves: pop_front / erase(begin).
TryPopRest(q) == IF q = <<>> THEN q ELSE Tail(q)

-----------------------------------------------------------------------------
(* PhysicsSystem *)

\* "physics[i].vx != 0.0 || physics[i].vy != 0.0"
Moving(p) == p.vx # 0 \/ p.vy # 0

\* PhysicsSystem::UpdateParallel, lines 170-177, on the copied transform t:
\* integrate, then the four boundary tests in the order of the source.  n
\* counts the events pushed.
IntegrateParallel_OffByOne(t, p) ==
    LET x1 == t.x + p.vx
        y1 == t.y + p.vy
        lx == x1 < 0
        x2 == IF lx THEN 0 ELSE x1
        vx2 == IF lx THEN -p.vx ELSE p.vx
        hx == x2 >= XMax
        x3 == IF hx THEN XMax ELSE x2
        vx3 == IF hx THEN -vx2 ELSE vx2
        ly == y1 < 0
        y2 == IF ly THEN 0 ELSE y1
        vy2 == IF ly THEN -p.vy ELSE p.vy
        hy == y2 >= YMax
        y3 == IF hy THEN YMax ELSE y2
        vy3 == IF hy THEN -vy2 ELSE vy2
    IN  [t |-> TransformComponent(x3, y3), p |-> PhysicsComponent(vx3, vy3),
         n |-> Cardinality({c \in {<<1, lx>>, <<2, hx>>, <<3, ly>>, <<4, hy>>} : c[2]})]

IntegrateParallel_KeepsVelocity(t, p) ==
    LET x1 == t.x + p.vx
        y1 == t.y + p.vy
        ox == x1 < 0 \/ x1 > XMax
        oy == y1 < 0 \/ y1 > YMax
    IN  [t |-> TransformComponent(IF x1 < 0 THEN 0 ELSE IF x1 > XMax THEN XMax ELSE x1,
                                  IF y1 < 0 THEN 0 ELSE IF y1 > YMax THEN YMax ELSE y1),
         p |-> p,
         n |-> (IF ox THEN 1 ELSE 0) + (IF oy THEN 1 ELSE 0)]

IntegrateParallel(t, p) ==
    LET x1 == t.x + p.vx
        y1 == t.y + p.vy
        lx == x1 < 0
        x2 == IF lx THEN 0 ELSE x1
        vx2 == IF lx THEN -p.vx ELSE p.vx
        hx == x2 > XMax
        x3 == IF hx THEN XMax ELSE x2
        vx3 == IF hx THEN -vx2 ELSE vx2
        ly == y1 < 0
        y2 == IF ly THEN 0 ELSE y1
        vy2 == IF ly THEN -p.vy ELSE p.vy
        hy == y2 > YMax
        y3 == IF hy THEN YMax ELSE y2
        vy3 == IF hy THEN -vy2 ELSE vy2
    IN  [t |-> TransformComponent(x3, y3), p |-> PhysicsComponent(vx3, vy3),
         n |-> Cardinality({c \in {<<1, lx>>, <<2, hx>>, <<3, ly>>, <<4, hy>>} : c[2]})]

\* part_001's PhysicsSystem::Update, lines 148-158: integrate, then one test
\* per axis that negates the velocity and pushes; the position is not clamped.
IntegrateUpdate(t, p) ==
    LET x1 == t.x + p.vx
        y1 == t.y + p.vy
        ox == x1 < 0 \/ x1 > XMax
        oy == y1 < 0 \/ y1 > YMax
    IN  [t |-> TransformComponent(x1, y1),
         p |-> PhysicsComponent(IF ox THEN -p.vx ELSE p.vx, IF oy THEN -p.vy ELSE p.vy),
         n |-> (IF ox THEN 1 ELSE 0) + (IF oy THEN 1 ELSE 0)]

\* Thread.cpp's PhysicsSystem::Update, lines 144-147: integrate only, no
\* boundary test and no event.
IntegrateLegacy(t, p) ==
    [t |-> TransformComponent(t.x + p.vx, t.y + p.vy), p |-> p, n |-> 0]

\* The n events CollisionEvent{i, MAX_ENTITIES} a step pushes for entity i.
WallEvents(i, n) == [k \in 1..n |-> CollisionEvent(i, MAX_ENTITIES)]

-----------------------------------------------------------------------------
(* DamageSystem *)

\* Lines 246-248: a wall hit on positive health costs Penalty, floored at 0.
DamageHealth_NoFloor(h, ev) ==
    IF ev.b = MAX_ENTITIES /\ h > 0 THEN h - Penalty ELSE h
DamageHealth(h, ev) ==
    IF ev.b = MAX_ENTITIES /\ h > 0
    THEN (IF h - Penalty > 0 THEN h - Penalty ELSE 0)
    ELSE h

\* Line 249: the message is printed inside "if (health > 0)".
DamageReports_Always(h, ev) == ev.b = MAX_ENTITIES
DamageReports(h, ev) == ev.b = MAX_ENTITIES /\ h > 0

-----------------------------------------------------------------------------
(* RenderSystem *)

\* CollectParallel tests "symbol != ' '", part_001's Collect "symbol != '\0'".
VisibleParallel(sym) == sym # " "
VisibleCollect(sym) == sym # NulSymbol

-----------------------------------------------------------------------------
(* The physics step, one action per entity copy and integration *)

\* "for (Entity i = 0; ...)": the step starts at the first active slot.  The
\* front index is read once, when the step takes its buffer references.
BeginStep ==
    /\ pFront' = m_frontBufferIndex
    /\ stepNo' = stepNo + 1
    /\ pI' = NextActive(0)
    /\ ppc' = IF NextActive(0) < MAX_ENTITIES THEN "copy" ELSE "publish"

\* "++i": on to the next active slot, or out of the loop.
NextEntity_StopsEarly ==
    /\ pI' = MAX_ENTITIES
    /\ ppc' = "publish"

NextEntity ==
    /\ pI' = NextActive(pI + 1)
    /\ ppc' = IF NextActive(pI + 1) < MAX_ENTITIES THEN "copy" ELSE "publish"

\* transforms_back[i] = transforms_front[i]
PhysicsCopy_MovingOnly ==
    /\ ppc = "copy"
    /\ IF Moving(m_physics[pI])
       THEN /\ m_transforms' = [m_transforms EXCEPT ![1 - pFront][pI] = m_transforms[pFront][pI]]
            /\ ppc' = "integrate" /\ pI' = pI
       ELSE /\ m_transforms' = m_transforms
            /\ NextEntity
    /\ bufGen' = [bufGen EXCEPT ![1 - pFront] = stepNo]
    /\ UNCHANGED <<callVars, flipVars, objVars, staticVars, createVars, thVars, rendVars, mainVars, flagVars, pushVars, popVars,
                   m_physics, m_healths, m_frontBufferIndex, pFront, stepNo>>

PhysicsCopy ==
    /\ ppc = "copy"
    /\ m_transforms' = [m_transforms EXCEPT ![1 - pFront][pI] = m_transforms[pFront][pI]]
    /\ bufGen' = [bufGen EXCEPT ![1 - pFront] = stepNo]
    /\ IF Moving(m_physics[pI])
       THEN ppc' = "integrate" /\ pI' = pI
       ELSE NextEntity
    /\ UNCHANGED <<callVars, flipVars, objVars, staticVars, createVars, thVars, rendVars, mainVars, flagVars, pushVars, popVars,
                   m_physics, m_healths, m_frontBufferIndex, pFront, stepNo>>

\* The integration of entity pI by r, one of the two Integrate operators,
\* and the pushes of its collisions.
IntegrateEntity(r) ==
    /\ ppc = "integrate"
    /\ m_transforms' = [m_transforms EXCEPT ![1 - pFront][pI] = r.t]
    /\ m_physics' = [m_physics EXCEPT ![pI] = r.p]
    /\ bufGen' = [bufGen EXCEPT ![1 - pFront] = stepNo]
    /\ m_queue' = m_queue \o WallEvents(pI, r.n)
    /\ pushed' = pushed \o WallEvents(pI, r.n)
    /\ pushedSinceReturn' = (pushedSinceReturn \/ r.n > 0)
    /\ vxFlipStep' = IF r.p.vx * m_physics[pI].vx < 0
                     THEN [vxFlipStep EXCEPT ![pI] = stepNo]
                     ELSE vxFlipStep
    /\ NextEntity
    /\ UNCHANGED <<callVars, objVars, staticVars, createVars, thVars, rendVars, mainVars, flagVars, popVars,
                   m_healths, m_frontBufferIndex, pFront, stepNo>>

-----------------------------------------------------------------------------
(* The render pass, one action per entity read *)

\* packets.clear(); the front index is read once, for the transforms reference.
BeginPass ==
    /\ packets' = <<>>
    /\ rFront' = m_frontBufferIndex
    /\ rGenStart' = bufGen[m_frontBufferIndex]
    /\ rI' = NextActive(0)
    /\ rpc' = IF NextActive(0) < MAX_ENTITIES THEN "read" ELSE "draw"
    /\ UNCHANGED hudLine

\* One iteration on an active slot: the packet of entity rI if it is visible.
ReadEntity(visible) ==
    /\ rpc = "read"
    /\ packets' = IF visible
                  THEN Append(packets, RenderPacket(m_renders[rI], m_transforms[rFront][rI]))
                  ELSE packets
    /\ rI' = NextActive(rI + 1)
    /\ rpc' = IF NextActive(rI + 1) < MAX_ENTITIES THEN "read" ELSE "draw"
    /\ UNCHANGED <<callVars, flipVars, objVars, staticVars, createVars, thVars, physVars, mainVars, flagVars, pushVars, popVars,
                   m_transforms, m_physics, m_healths, m_frontBufferIndex,
                   stepNo, bufGen, rFront, rGenStart, hudLine>>

-----------------------------------------------------------------------------
(* DamageSystem::DrainAndApply / Update: one action per TryPop / Pop *)

\* "if (!evOpt) break;" / "while (auto eventOpt = events.Pop())": the loop
\* ends on the first empty pop, and only then.
LoopEnds_AfterOne(opt) == TRUE
LoopEnds(opt) == opt = NullOpt

\* The health table after the visit of what was popped.
VisitHealths(opt) ==
    IF opt = NullOpt THEN m_healths
    ELSE [m_healths EXCEPT ![opt[1].a] = DamageHealth(m_healths[opt[1].a], opt[1])]

\* The lines printed after the visit of what was popped.
VisitLog(opt) ==
    IF opt # NullOpt /\ DamageReports(m_healths[opt[1].a], opt[1])
    THEN Append(hitLog, [a |-> opt[1].a, hp |-> VisitHealths(opt)[opt[1].a]])
    ELSE hitLog

\* One turn of the drain loop on the main thread: a pop, the visit of the
\* event popped and, when the loop ends, the return to position after.
DrainStep(after) ==
    /\ mpc = "drain"
    /\ TryPopReady(m_queue)
    /\ lastPop' = TryPopValue(m_queue)
    /\ m_queue' = TryPopRest(m_queue)
    /\ popped' = popped \o TryPopValue(m_queue)
    /\ m_healths' = VisitHealths(TryPopValue(m_queue))
    /\ hitLog' = VisitLog(TryPopValue(m_queue))
    /\ IF LoopEnds(TryPopValue(m_queue))
       THEN /\ mpc' = after
            /\ drainReturned' = TRUE
            /\ pushedSinceReturn' = FALSE
            /\ idleDrain' = (drainReturned /\ ~pushedSinceReturn)
       ELSE UNCHANGED <<mpc, drainReturned, pushedSinceReturn, idleDrain>>
    /\ UNCHANGED <<callVars, flipVars, objVars, staticVars, createVars, thVars, physVars, rendVars, flagVars, m_transforms,
                   m_physics, m_frontBufferIndex, stepNo, bufGen, pushed, tick>>

-----------------------------------------------------------------------------
(* Initial states *)

\* The scene main has seeded from s, before any thread starts.
SceneIs(sc) ==
    /\ m_entity_active = sc.active
    /\ m_transforms = sc.transforms
    /\ m_physics = sc.physics
    /\ m_renders = sc.renders
    /\ m_healths = sc.healths
    /\ seedHealth = sc.healths
    /\ m_frontBufferIndex = 0
    /\ created = <<>>

\* Empty queue, nothing observed yet.
QueueIsEmpty ==
    /\ m_queue = <<>>
    /\ pushed = <<>>
    /\ popped = <<>>
    /\ lastPop = NullOpt
    /\ hitLog = <<>>
    /\ drainReturned = FALSE
    /\ pushedSinceReturn = FALSE
    /\ idleDrain = FALSE
    /\ drainStartPushed = 0

\* Lines 297-301: the globals of Thread.cpp's handshake threads, with
\* g_running as given.
HandshakeFlags(r) ==
    /\ g_running = r
    /\ g_requestPhysics = FALSE
    /\ g_physicsDone = FALSE

\* part_000's game object has not been created: its program is not running.
NoGameObject ==
    /\ objAlive = FALSE
    /\ m_iRecCount = 0
    /\ m_uiUpdateNums = 0
    /\ m_uiRenderNums = 0
    /\ m_vecReserveGameObjects = <<>>
    /\ m_vecCurrentGameObjects = <<>>
    /\ m_vecEnterNums = <<>>
    /\ m_vecDrawNums = <<>>
    /\ updReg = 0
    /\ updateCalls = 0
    /\ releaseEntries = {}
    /\ deletedBy = "none"
    /\ usedAfterFree = FALSE

\* Thread positions and locals as the threads start.
ThreadsAt(p, r, m) ==
    /\ ppc = p /\ pI = 0 /\ pFront = 0
    /\ rpc = r /\ rI = 0 /\ rFront = 0 /\ packets = <<>>
    /\ mpc = m /\ tick = 0
    /\ stepNo = 0
    /\ bufGen = [b \in 0..1 |-> 0]
    /\ rGenStart = 0
    /\ hudLine = <<>>
    /\ vxFlipStep = [e \in Entities |-> 0]

-----------------------------------------------------------------------------
(* Thread.cpp: the free-running pipeline of main, lines 358-424 *)

\* tPhysics: "while (running.load())".  The thread sleeps between steps; the
\* model lets it take MaxSteps steps and then sleep until it is stopped.
FRPhysicsLoop ==
    /\ ppc = "loop"
    /\ running => stepNo < MaxSteps
    /\ ppc' = IF running THEN "load" ELSE "done"
    /\ UNCHANGED <<callVars, flipVars, objVars, staticVars, createVars, thVars, rendVars, mainVars, flagVars, pushVars, popVars,
                   m_transforms, m_physics, m_healths, m_frontBufferIndex,
                   pI, pFront, stepNo, bufGen>>

\* UpdateParallel, lines 155-161: int curFront = scene.LoadFrontIndex().
FRPhysicsLoad ==
    /\ ppc = "load"
    /\ BeginStep
    /\ UNCHANGED <<callVars, flipVars, objVars, staticVars, createVars, thVars, rendVars, mainVars, flagVars, pushVars, popVars,
                   m_transforms, m_physics, m_healths, m_frontBufferIndex, bufGen>>

\* UpdateParallel, line 167.
FRPhysicsCopy == PhysicsCopy

\* UpdateParallel, lines 169-178.
FRPhysicsIntegrate ==
    IntegrateEntity(IntegrateParallel(m_transforms[1 - pFront][pI], m_physics[pI]))

\* UpdateParallel, line 182: scene.StoreFrontIndex(back).
FRPhysicsStore ==
    /\ ppc = "publish"
    /\ m_frontBufferIndex' = 1 - pFront
    /\ ppc' = "loop"
    /\ UNCHANGED <<callVars, flipVars, objVars, staticVars, createVars, thVars, rendVars, mainVars, flagVars, pushVars, popVars,
                   m_transforms, m_physics, m_healths, pI, pFront, stepNo, bufGen>>

\* tRender: "while (running.load())".
FRRenderLoop ==
    /\ rpc = "loop"
    /\ rpc' = IF running THEN "collect" ELSE "done"
    /\ UNCHANGED <<callVars, flipVars, objVars, staticVars, createVars, thVars, physVars, mainVars, flagVars, pushVars, popVars,
                   m_transforms, m_physics, m_healths, m_frontBufferIndex,
                   stepNo, bufGen, rI, rFront, packets, rGenStart, hudLine>>

\* CollectParallel, lines 205-209.
FRRenderCollect ==
    /\ rpc = "collect"
    /\ BeginPass
    /\ UNCHANGED <<callVars, flipVars, objVars, staticVars, createVars, thVars, physVars, mainVars, flagVars, pushVars, popVars,
                   m_transforms, m_physics, m_healths, m_frontBufferIndex,
                   stepNo, bufGen>>

\* CollectParallel, lines 211-215.
FRRenderRead == ReadEntity(VisibleParallel(m_renders[rI]))

\* Renderer::Draw, lines 274-285: the screen rows of the packets are printed;
\* then "for (Entity i = 0; i < 10; ++i) if (active[i])" starts.
FRRenderDraw ==
    /\ rpc = "draw"
    /\ hudLine' = <<>>
    /\ rI' = NextActive(0)
    /\ rpc' = IF NextActive(0) < MAX_ENTITIES THEN "hud" ELSE "loop"
    /\ UNCHANGED <<callVars, flipVars, objVars, staticVars, createVars, thVars, physVars, mainVars, flagVars, pushVars, popVars,
                   m_transforms, m_physics, m_healths, m_frontBufferIndex,
                   stepNo, bufGen, rFront, packets, rGenStart>>

\* Renderer::Draw, lines 286-289: printf("[Entity %d] HP: %d | ", i,
\* healths[i].health) reads the health table on the render thread; after the
\* last entity, the 16 ms sleep of tRender.
FRRenderHud ==
    /\ rpc = "hud"
    /\ hudLine' = Append(hudLine, [e |-> rI, hp |-> m_healths[rI]])
    /\ rI' = NextActive(rI + 1)
    /\ rpc' = IF NextActive(rI + 1) < MAX_ENTITIES THEN "hud" ELSE "loop"
    /\ UNCHANGED <<callVars, flipVars, objVars, staticVars, createVars, thVars, physVars, mainVars, flagVars, pushVars, popVars,
                   m_transforms, m_physics, m_healths, m_frontBufferIndex,
                   stepNo, bufGen, rFront, packets, rGenStart>>

\* main, line 411: damageSystem.DrainAndApply(scene, events).
MainDrainAndApply == DrainStep("sleep")

\* main, lines 409-413: the run time has not elapsed, another turn.
MainLoopAgain ==
    /\ mpc = "sleep"
    /\ mpc' = "drain"
    /\ drainStartPushed' = Len(pushed)
    /\ UNCHANGED <<flipVars, objVars, staticVars, createVars, thVars, physVars, rendVars, flagVars, pushVars, popVars,
                   m_transforms, m_physics, m_healths, m_frontBufferIndex,
                   stepNo, bufGen, tick>>

\* main, lines 409 and 417: the run time has elapsed, running.store(false).
FRMainStop ==
    /\ mpc = "sleep"
    /\ running' = FALSE
    /\ mpc' = "join1"
    /\ UNCHANGED <<callVars, flipVars, objVars, staticVars, createVars, thVars, physVars, rendVars, pushVars, popVars,
                   m_transforms, m_physics, m_healths, m_frontBufferIndex,
                   stepNo, bufGen, tick, g_Run, g_physicsWork, g_renderWork>>

\* tPhysics.join() / t1.join()
MainJoinPhysics ==
    /\ mpc = "join1"
    /\ ppc = "done"
    /\ mpc' = "join2"
    /\ UNCHANGED <<callVars, flipVars, objVars, staticVars, createVars, thVars, physVars, rendVars, flagVars, pushVars, popVars,
                   m_transforms, m_physics, m_healths, m_frontBufferIndex,
                   stepNo, bufGen, tick>>

\* tRender.join() / t2.join()
MainJoinRender ==
    /\ mpc = "join2"
    /\ rpc = "done"
    /\ mpc' = "finished"
    /\ UNCHANGED <<callVars, flipVars, objVars, staticVars, createVars, thVars, physVars, rendVars, flagVars, pushVars, popVars,
                   m_transforms, m_physics, m_healths, m_frontBufferIndex,
                   stepNo, bufGen, tick>>

FRInit ==
    /\ \E s \in PipelineSeeds : SceneIs(SeedScene(s))
    /\ QueueIsEmpty
    /\ ThreadsAt("loop", "loop", "drain")
    /\ HandshakeFlags(FALSE)
    /\ NoGameObject
    /\ running = TRUE
    /\ g_Run = FALSE /\ g_physicsWork = FALSE /\ g_renderWork = FALSE

FRNext ==
    \/ FRPhysicsLoop \/ FRPhysicsLoad \/ FRPhysicsCopy \/ FRPhysicsIntegrate
    \/ FRPhysicsStore
    \/ FRRenderLoop \/ FRRenderCollect \/ FRRenderRead \/ FRRenderDraw
    \/ FRRenderHud
    \/ MainDrainAndApply \/ MainLoopAgain \/ FRMainStop
    \/ MainJoinPhysics \/ MainJoinRender

\* The free-running pipeline of Thread.cpp.
SpecFR == FRInit /\ [][FRNext]_vars

-----------------------------------------------------------------------------
(* part_001: the handshake pipeline of main, lines 319-371 *)

\* A thread blocked in g_cv.wait is at "blocked"; notify_all sends it back to
\* "wait", where it takes the lock again and tests its predicate.
Woken(pc) == IF pc = "blocked" THEN "wait" ELSE pc

\* CPhysicsThread::Run, line 273: "while (g_Run)".
HSPhysicsLoop ==
    /\ ppc = "loop"
    /\ ppc' = IF g_Run THEN "wait" ELSE "done"
    /\ UNCHANGED <<callVars, flipVars, objVars, staticVars, createVars, thVars, rendVars, mainVars, flagVars, pushVars, popVars,
                   m_transforms, m_physics, m_healths, m_frontBufferIndex,
                   pI, pFront, stepNo, bufGen>>

\* Lines 275-276: under the lock, g_cv.wait tests "!g_Run || g_physicsWork"
\* and blocks, releasing the lock, when it is false.
HSPhysicsWait ==
    /\ ppc = "wait"
    /\ ppc' = IF ~g_Run \/ g_physicsWork THEN "check" ELSE "blocked"
    /\ UNCHANGED <<callVars, flipVars, objVars, staticVars, createVars, thVars, rendVars, mainVars, flagVars, pushVars, popVars,
                   m_transforms, m_physics, m_healths, m_frontBufferIndex,
                   pI, pFront, stepNo, bufGen>>

\* Line 277, "if (!g_Run) break;", else line 280 enters system.Update, which
\* takes its front and back references (lines 138-141).
HSPhysicsCheck_NoBreak ==
    /\ ppc = "check"
    /\ BeginStep
    /\ UNCHANGED <<callVars, flipVars, objVars, staticVars, createVars, thVars, rendVars, mainVars, flagVars, pushVars, popVars,
                   m_transforms, m_physics, m_healths, m_frontBufferIndex, bufGen>>

HSPhysicsCheck ==
    /\ ppc = "check"
    /\ IF ~g_Run
       THEN ppc' = "done" /\ UNCHANGED <<pI, pFront, stepNo>>
       ELSE BeginStep
    /\ UNCHANGED <<callVars, flipVars, objVars, staticVars, createVars, thVars, rendVars, mainVars, flagVars, pushVars, popVars,
                   m_transforms, m_physics, m_healths, m_frontBufferIndex, bufGen>>

\* PhysicsSystem::Update, line 147 or 162.
HSPhysicsCopy == PhysicsCopy

\* PhysicsSystem::Update, lines 148-158.
HSPhysicsIntegrate ==
    IntegrateEntity(IntegrateUpdate(m_transforms[1 - pFront][pI], m_physics[pI]))

\* Line 281: scene.SwapTransformBuffers().
HSPhysicsSwap ==
    /\ ppc = "publish"
    /\ m_frontBufferIndex' = 1 - m_frontBufferIndex
    /\ ppc' = "signal"
    /\ UNCHANGED <<callVars, flipVars, objVars, staticVars, createVars, thVars, rendVars, mainVars, flagVars, pushVars, popVars,
                   m_transforms, m_physics, m_healths, pI, pFront, stepNo, bufGen>>

\* Lines 283-287: under the lock, g_physicsWork = false; g_renderWork = true.
HSPhysicsSignal ==
    /\ ppc = "signal"
    /\ g_physicsWork' = FALSE
    /\ g_renderWork' = TRUE
    /\ ppc' = "notify"
    /\ UNCHANGED <<callVars, flipVars, objVars, staticVars, createVars, thVars, rendVars, mainVars, pushVars, popVars,
                   m_transforms, m_physics, m_healths, m_frontBufferIndex,
                   pI, pFront, stepNo, bufGen, running, g_Run>>

\* Line 288: g_cv.notify_all().
HSPhysicsNotify ==
    /\ ppc = "notify"
    /\ ppc' = "loop"
    /\ rpc' = Woken(rpc)
    /\ UNCHANGED <<callVars, flipVars, objVars, staticVars, createVars, thVars, mainVars, flagVars, pushVars, popVars,
                   m_transforms, m_physics, m_healths, m_frontBufferIndex,
                   pI, pFront, stepNo, bufGen, rI, rFront, packets, rGenStart, hudLine>>

\* CRenderThread::Run, line 297: "while (g_Run)".
HSRenderLoop ==
    /\ rpc = "loop"
    /\ rpc' = IF g_Run THEN "wait" ELSE "done"
    /\ UNCHANGED <<callVars, flipVars, objVars, staticVars, createVars, thVars, physVars, mainVars, flagVars, pushVars, popVars,
                   m_transforms, m_physics, m_healths, m_frontBufferIndex,
                   stepNo, bufGen, rI, rFront, packets, rGenStart, hudLine>>

\* Lines 299-300: g_cv.wait on "!g_Run || g_renderWork".
HSRenderWait ==
    /\ rpc = "wait"
    /\ rpc' = IF ~g_Run \/ g_renderWork THEN "check" ELSE "blocked"
    /\ UNCHANGED <<callVars, flipVars, objVars, staticVars, createVars, thVars, physVars, mainVars, flagVars, pushVars, popVars,
                   m_transforms, m_physics, m_healths, m_frontBufferIndex,
                   stepNo, bufGen, rI, rFront, packets, rGenStart, hudLine>>

\* Line 301, "if (!g_Run) break;", else line 304 enters system.Collect
\* (lines 177-180).
HSRenderCheck ==
    /\ rpc = "check"
    /\ IF ~g_Run
       THEN rpc' = "done" /\ UNCHANGED <<rI, rFront, packets, rGenStart, hudLine>>
       ELSE BeginPass
    /\ UNCHANGED <<callVars, flipVars, objVars, staticVars, createVars, thVars, physVars, mainVars, flagVars, pushVars, popVars,
                   m_transforms, m_physics, m_healths, m_frontBufferIndex,
                   stepNo, bufGen>>

\* RenderSystem::Collect, lines 182-186.
HSRenderRead == ReadEntity(VisibleCollect(m_renders[rI]))

\* Line 305: renderer.Draw(packets, scene).
HSRenderDraw ==
    /\ rpc = "draw"
    /\ rpc' = "clear"
    /\ UNCHANGED <<callVars, flipVars, objVars, staticVars, createVars, thVars, physVars, mainVars, flagVars, pushVars, popVars,
                   m_transforms, m_physics, m_healths, m_frontBufferIndex,
                   stepNo, bufGen, rI, rFront, packets, rGenStart, hudLine>>

\* Lines 307-310: under the lock, g_renderWork = false.
HSRenderClear ==
    /\ rpc = "clear"
    /\ g_renderWork' = FALSE
    /\ rpc' = "loop"
    /\ UNCHANGED <<callVars, flipVars, objVars, staticVars, createVars, thVars, physVars, mainVars, pushVars, popVars,
                   m_transforms, m_physics, m_healths, m_frontBufferIndex,
                   stepNo, bufGen, rI, rFront, packets, rGenStart, hudLine,
                   running, g_Run, g_physicsWork>>

\* main, line 348: damageSystem.Update(scene, events).
HSMainUpdate == DrainStep("request")

\* main, lines 350-353: under the lock, g_physicsWork = true.
HSMainRequest ==
    /\ mpc = "request"
    /\ g_physicsWork' = TRUE
    /\ mpc' = "notify"
    /\ UNCHANGED <<callVars, flipVars, objVars, staticVars, createVars, thVars, physVars, rendVars, pushVars, popVars,
                   m_transforms, m_physics, m_healths, m_frontBufferIndex,
                   stepNo, bufGen, tick, running, g_Run, g_renderWork>>

\* main, line 354: g_cv.notify_all().
HSMainNotify ==
    /\ mpc = "notify"
    /\ mpc' = "sleep"
    /\ ppc' = Woken(ppc)
    /\ rpc' = Woken(rpc)
    /\ UNCHANGED <<callVars, flipVars, objVars, staticVars, createVars, thVars, flagVars, pushVars, popVars,
                   m_transforms, m_physics, m_healths, m_frontBufferIndex,
                   stepNo, bufGen, tick, pI, pFront, rI, rFront, packets, rGenStart, hudLine>>

\* main, lines 356 and 347: the sleep, "++i" and "i < 500".
HSMainSleep ==
    /\ mpc = "sleep"
    /\ tick' = tick + 1
    /\ mpc' = IF tick + 1 < MaxTicks THEN "drain" ELSE "stop"
    /\ drainStartPushed' = Len(pushed)
    /\ UNCHANGED <<flipVars, objVars, staticVars, createVars, thVars, physVars, rendVars, flagVars, pushVars, popVars,
                   m_transforms, m_physics, m_healths, m_frontBufferIndex,
                   stepNo, bufGen>>

\* main, line 359: g_Run = false.
HSMainStop ==
    /\ mpc = "stop"
    /\ g_Run' = FALSE
    /\ mpc' = "stopflags"
    /\ UNCHANGED <<callVars, flipVars, objVars, staticVars, createVars, thVars, physVars, rendVars, pushVars, popVars,
                   m_transforms, m_physics, m_healths, m_frontBufferIndex,
                   stepNo, bufGen, tick, running, g_physicsWork, g_renderWork>>

\* main, lines 360-364: under the lock, both work flags set.
HSMainStopFlags ==
    /\ mpc = "stopflags"
    /\ g_physicsWork' = TRUE
    /\ g_renderWork' = TRUE
    /\ mpc' = "stopnotify"
    /\ UNCHANGED <<callVars, flipVars, objVars, staticVars, createVars, thVars, physVars, rendVars, pushVars, popVars,
                   m_transforms, m_physics, m_healths, m_frontBufferIndex,
                   stepNo, bufGen, tick, running, g_Run>>

\* main, line 365: g_cv.notify_all(), then the joins.
HSMainStopNotify_Forgotten ==
    /\ mpc = "stopnotify"
    /\ mpc' = "join1"
    /\ UNCHANGED <<callVars, flipVars, objVars, staticVars, createVars, thVars, flagVars, pushVars, popVars,
                   m_transforms, m_physics, m_healths, m_frontBufferIndex,
                   stepNo, bufGen, tick, physVars, rendVars>>

HSMainStopNotify ==
    /\ mpc = "stopnotify"
    /\ mpc' = "join1"
    /\ ppc' = Woken(ppc)
    /\ rpc' = Woken(rpc)
    /\ UNCHANGED <<callVars, flipVars, objVars, staticVars, createVars, thVars, flagVars, pushVars, popVars,
                   m_transforms, m_physics, m_healths, m_frontBufferIndex,
                   stepNo, bufGen, tick, pI, pFront, rI, rFront, packets, rGenStart, hudLine>>

HSInit ==
    /\ \E s \in PipelineSeeds : SceneIs(SeedScene(s))
    /\ QueueIsEmpty
    /\ ThreadsAt("loop", "loop", "drain")
    /\ HandshakeFlags(FALSE)
    /\ NoGameObject
    /\ g_Run = TRUE
    /\ g_physicsWork = FALSE /\ g_renderWork = FALSE
    /\ running = FALSE

HSPhysics ==
    \/ HSPhysicsLoop \/ HSPhysicsWait \/ HSPhysicsCheck \/ HSPhysicsCopy
    \/ HSPhysicsIntegrate \/ HSPhysicsSwap \/ HSPhysicsSignal \/ HSPhysicsNotify

HSRender ==
    \/ HSRenderLoop \/ HSRenderWait \/ HSRenderCheck \/ HSRenderRead
    \/ HSRenderDraw \/ HSRenderClear

HSMain ==
    \/ HSMainUpdate \/ HSMainRequest \/ HSMainNotify \/ HSMainSleep
    \/ HSMainStop \/ HSMainStopFlags \/ HSMainStopNotify
    \/ MainJoinPhysics \/ MainJoinRender

HSNext == HSPhysics \/ HSRender \/ HSMain

\* The handshake pipeline of part_001.
SpecHS == HSInit /\ [][HSNext]_vars

\* The same under a fair scheduler: a thread that can take a step takes one.
SpecHSFair ==
    /\ HSInit /\ [][HSNext]_vars
    /\ WF_vars(HSPhysics) /\ WF_vars(HSRender) /\ WF_vars(HSMain)

-----------------------------------------------------------------------------
(* Thread.cpp: CPhysicsThread::Run, lines 303-328, and the thread that
   drives it through g_requestPhysics and g_running *)

\* Line 306: "while (g_running.load())".
THPhysicsLoop ==
    /\ ppc = "loop"
    /\ ppc' = IF g_running THEN "wait" ELSE "done"
    /\ UNCHANGED <<callVars, flipVars, objVars, staticVars, createVars, thVars, rendVars, mainVars, flagVars,
                   pushVars, popVars, m_transforms, m_physics, m_healths,
                   m_frontBufferIndex, pI, pFront, stepNo, bufGen>>

\* Lines 309-310: under the lock, g_cv.wait on
\* "!g_running.load() || g_requestPhysics".
THPhysicsWait ==
    /\ ppc = "wait"
    /\ ppc' = IF ~g_running \/ g_requestPhysics THEN "check" ELSE "blocked"
    /\ UNCHANGED <<callVars, flipVars, objVars, staticVars, createVars, thVars, rendVars, mainVars, flagVars,
                   pushVars, popVars, m_transforms, m_physics, m_healths,
                   m_frontBufferIndex, pI, pFront, stepNo, bufGen>>

\* Line 311, "if (!g_running.load()) break;", else line 312 consumes the
\* request and line 316 enters system.Update, which takes its front and back
\* references (lines 136-137).
THPhysicsCheck ==
    /\ ppc = "check"
    /\ IF ~g_running
       THEN ppc' = "done" /\ UNCHANGED <<pI, pFront, stepNo, g_requestPhysics>>
       ELSE g_requestPhysics' = FALSE /\ BeginStep
    /\ UNCHANGED <<callVars, flipVars, objVars, staticVars, createVars, rendVars, mainVars, flagVars, pushVars,
                   popVars, m_transforms, m_physics, m_healths, m_frontBufferIndex,
                   bufGen, g_running, g_physicsDone>>

\* PhysicsSystem::Update, line 143.
THPhysicsCopy == PhysicsCopy

\* PhysicsSystem::Update, lines 144-147.
THPhysicsIntegrate ==
    IntegrateEntity(IntegrateLegacy(m_transforms[1 - pFront][pI], m_physics[pI]))

\* PhysicsSystem::Update, line 149: scene.SwapTransformBuffers() at the end
\* of Update.
THUpdateSwap ==
    /\ ppc = "publish"
    /\ m_frontBufferIndex' = 1 - m_frontBufferIndex
    /\ ppc' = "swap"
    /\ UNCHANGED <<callVars, flipVars, objVars, staticVars, createVars, thVars, rendVars, mainVars, flagVars,
                   pushVars, popVars, m_transforms, m_physics, m_healths,
                   pI, pFront, stepNo, bufGen>>

\* CPhysicsThread::Run, line 319: scene.SwapTransformBuffers().
THPhysicsSwap ==
    /\ ppc = "swap"
    /\ m_frontBufferIndex' = 1 - m_frontBufferIndex
    /\ ppc' = "signal"
    /\ UNCHANGED <<callVars, flipVars, objVars, staticVars, createVars, thVars, rendVars, mainVars, flagVars,
                   pushVars, popVars, m_transforms, m_physics, m_healths,
                   pI, pFront, stepNo, bufGen>>

\* Lines 322-325: under the lock, g_physicsDone = true.
THPhysicsSignal ==
    /\ ppc = "signal"
    /\ g_physicsDone' = TRUE
    /\ ppc' = "notify"
    /\ UNCHANGED <<callVars, flipVars, objVars, staticVars, createVars, rendVars, mainVars, flagVars, pushVars,
                   popVars, m_transforms, m_physics, m_healths, m_frontBufferIndex,
                   pI, pFront, stepNo, bufGen, g_running, g_requestPhysics>>

\* Line 326: g_cv.notify_all().
THPhysicsNotify ==
    /\ ppc = "notify"
    /\ ppc' = "loop"
    /\ rpc' = Woken(rpc)
    /\ UNCHANGED <<callVars, flipVars, objVars, staticVars, createVars, thVars, mainVars, flagVars, pushVars,
                   popVars, m_transforms, m_physics, m_healths, m_frontBufferIndex,
                   pI, pFront, stepNo, bufGen, rI, rFront, packets, rGenStart, hudLine>>

\* The driving thread raises a request: under the lock,
\* g_requestPhysics = true, then notify_all.
THDriverRequest ==
    /\ mpc = "drive"
    /\ tick < MaxTicks
    /\ tick' = tick + 1
    /\ g_requestPhysics' = TRUE
    /\ ppc' = Woken(ppc)
    /\ UNCHANGED <<callVars, flipVars, objVars, staticVars, createVars, rendVars, flagVars, pushVars, popVars,
                   m_transforms, m_physics, m_healths, m_frontBufferIndex,
                   pI, pFront, stepNo, bufGen, mpc, g_running, g_physicsDone>>

\* The driving thread takes the completion: under the lock,
\* g_physicsDone = false.
THDriverTakeDone ==
    /\ mpc = "drive"
    /\ g_physicsDone
    /\ g_physicsDone' = FALSE
    /\ UNCHANGED <<callVars, flipVars, objVars, staticVars, createVars, physVars, rendVars, mainVars, flagVars,
                   pushVars, popVars, m_transforms, m_physics, m_healths,
                   m_frontBufferIndex, stepNo, bufGen, g_running, g_requestPhysics>>

\* The driving thread stops the pipeline: g_running = false, then notify_all.
THDriverStop ==
    /\ mpc = "drive"
    /\ g_running' = FALSE
    /\ mpc' = "stopped"
    /\ ppc' = Woken(ppc)
    /\ UNCHANGED <<callVars, flipVars, objVars, staticVars, createVars, rendVars, flagVars, pushVars, popVars,
                   m_transforms, m_physics, m_healths, m_frontBufferIndex,
                   pI, pFront, stepNo, bufGen, tick, g_requestPhysics, g_physicsDone>>

THInit ==
    /\ \E s \in PipelineSeeds : SceneIs(SeedScene(s))
    /\ QueueIsEmpty
    /\ ThreadsAt("loop", "done", "drive")
    /\ HandshakeFlags(TRUE)
    /\ NoGameObject
    /\ running = FALSE
    /\ g_Run = FALSE /\ g_physicsWork = FALSE /\ g_renderWork = FALSE

THNext ==
    \/ THPhysicsLoop \/ THPhysicsWait \/ THPhysicsCheck \/ THPhysicsCopy
    \/ THPhysicsIntegrate \/ THUpdateSwap \/ THPhysicsSwap \/ THPhysicsSignal
    \/ THPhysicsNotify
    \/ THDriverRequest \/ THDriverTakeDone \/ THDriverStop

\* The handshake physics thread of Thread.cpp and its driver.
SpecTH == THInit /\ [][THNext]_vars

-----------------------------------------------------------------------------
(* The event queue between a pushing thread and the draining main thread *)

\* Health seeds of the queue specification: main's scene with low healths.
QueueSeeds ==
    {[MainSeed EXCEPT !.ph = a, !.mh = b] : a \in {5, 20}, b \in {5, 20}}

\* Events a thread may push: wall hits and entity-entity collisions of the
\* two seeded entities.
QueueEvents ==
    {CollisionEvent(a, b) : a \in {0, 1}, b \in {MAX_ENTITIES, 0, 1}}

\* events.Push(ev) by the pushing thread: push_back and notify_one under the
\* lock.
ProducerPush ==
    /\ Len(pushed) < MaxPush
    /\ \E ev \in QueueEvents :
          /\ ev.a # ev.b
          /\ m_queue' = QueuePush(m_queue, ev)
          /\ pushed' = Append(pushed, ev)
    /\ pushedSinceReturn' = TRUE
    /\ mpc' = NotifyOne(mpc)
    /\ UNCHANGED <<callVars, flipVars, objVars, staticVars, createVars, thVars, physVars, rendVars, flagVars, popVars,
                   m_transforms, m_physics, m_healths, m_frontBufferIndex,
                   stepNo, bufGen, tick>>

EQInit ==
    /\ \E s \in QueueSeeds : SceneIs(SeedScene(s))
    /\ QueueIsEmpty
    /\ ThreadsAt("push", "done", "drain")
    /\ HandshakeFlags(FALSE)
    /\ NoGameObject
    /\ running = TRUE
    /\ g_Run = FALSE /\ g_physicsWork = FALSE /\ g_renderWork = FALSE

EQNext == ProducerPush \/ MainDrainAndApply \/ MainLoopAgain

\* One thread pushing, the main thread calling DrainAndApply again and again.
SpecEQ == EQInit /\ [][EQNext]_vars

-----------------------------------------------------------------------------
(* EventQueue::WaitPop: a thread calling WaitPop again and again while
   another thread pushes *)

\* WaitPop, lines 56-60: under the lock, the wait predicate
\* "!m_queue.empty()"; false, the thread blocks in m_cv.wait with nothing
\* returned; true, it moves the front out, pops it and returns it.
WaitPopCall ==
    /\ mpc = "waitpop"
    /\ IF m_queue = <<>>
       THEN /\ mpc' = "popblocked"
            /\ lastPop' = NullOpt
            /\ UNCHANGED <<m_queue, popped>>
       ELSE /\ mpc' = "popreturned"
            /\ lastPop' = <<Head(m_queue)>>
            /\ popped' = Append(popped, Head(m_queue))
            /\ m_queue' = Tail(m_queue)
    /\ UNCHANGED <<callVars, flipVars, objVars, staticVars, createVars, thVars, physVars, rendVars, flagVars,
                   m_transforms, m_physics, m_healths, m_frontBufferIndex,
                   stepNo, bufGen, tick, pushed, pushedSinceReturn,
                   hitLog, drainReturned, idleDrain>>

\* std::condition_variable::wait may wake with no notification; the predicate
\* is tested again.
WaitPopSpuriousWake ==
    /\ mpc = "popblocked"
    /\ mpc' = "waitpop"
    /\ UNCHANGED <<callVars, flipVars, objVars, staticVars, createVars, thVars, physVars, rendVars, flagVars, pushVars,
                   popVars, m_transforms, m_physics, m_healths, m_frontBufferIndex,
                   stepNo, bufGen, tick>>

\* The caller has its event and calls WaitPop again.
WaitPopAgain ==
    /\ mpc = "popreturned"
    /\ mpc' = "waitpop"
    /\ UNCHANGED <<callVars, flipVars, objVars, staticVars, createVars, thVars, physVars, rendVars, flagVars, pushVars,
                   popVars, m_transforms, m_physics, m_healths, m_frontBufferIndex,
                   stepNo, bufGen, tick>>

WPInit ==
    /\ \E s \in QueueSeeds : SceneIs(SeedScene(s))
    /\ QueueIsEmpty
    /\ ThreadsAt("push", "done", "waitpop")
    /\ HandshakeFlags(FALSE)
    /\ NoGameObject
    /\ running = TRUE
    /\ g_Run = FALSE /\ g_physicsWork = FALSE /\ g_renderWork = FALSE

WPNext == ProducerPush \/ WaitPopCall \/ WaitPopSpuriousWake \/ WaitPopAgain

\* A fair scheduler runs the thread in WaitPop whenever it can take the lock;
\* nothing obliges the other thread to push, or the wait to wake on its own.
SpecWP == WPInit /\ [][WPNext]_vars /\ WF_vars(WaitPopCall)

-----------------------------------------------------------------------------
(* Scene::CreateEntity on any table of active flags *)

\* The component values main gives its two entities.
CreateSeeds ==
    {[t |-> MainSeed.pt, p |-> MainSeed.pv, sym |-> "@", h |-> MainSeed.ph],
     [t |-> MainSeed.mt, p |-> MainSeed.mv, sym |-> "M", h |-> MainSeed.mh]}

\* The id the last call returned.
LastCreated == created[Len(created)]

\* scene.CreateEntity()
SceneCreateEntity ==
    /\ Len(created) < MaxCreate
    /\ created' = Append(created, CreateEntityId(m_entity_active))
    /\ m_entity_active' = CreateEntityFlags(m_entity_active)
    /\ UNCHANGED <<callVars, flipVars, objVars, thVars, physVars, rendVars, mainVars, flagVars, pushVars, popVars,
                   m_transforms, m_physics, m_renders, m_healths, seedHealth,
                   m_frontBufferIndex, stepNo, bufGen>>

\* main, lines 370-373: the four components of the entity just created.
\* main creates two entities and does not test the id; the model seeds valid
\* ids only.
SceneSeedCreated ==
    /\ created # <<>>
    /\ LastCreated < MAX_ENTITIES
    /\ \E sd \in CreateSeeds :
          /\ m_transforms' = [m_transforms EXCEPT ![m_frontBufferIndex][LastCreated] = sd.t]
          /\ m_physics' = [m_physics EXCEPT ![LastCreated] = sd.p]
          /\ m_renders' = [m_renders EXCEPT ![LastCreated] = sd.sym]
          /\ m_healths' = [m_healths EXCEPT ![LastCreated] = sd.h]
          /\ seedHealth' = [seedHealth EXCEPT ![LastCreated] = sd.h]
    /\ UNCHANGED <<callVars, flipVars, objVars, createVars, thVars, physVars, rendVars, mainVars, flagVars, pushVars,
                   popVars, m_entity_active, m_frontBufferIndex, stepNo, bufGen>>

\* Any table of flags, the components as Scene::Scene leaves them.
CEInit ==
    /\ \E a \in [Entities -> BOOLEAN] : SceneIs([EmptyScene EXCEPT !.active = a])
    /\ QueueIsEmpty
    /\ ThreadsAt("done", "done", "create")
    /\ HandshakeFlags(FALSE)
    /\ NoGameObject
    /\ running = FALSE
    /\ g_Run = FALSE /\ g_physicsWork = FALSE /\ g_renderWork = FALSE

CENext == SceneCreateEntity \/ SceneSeedCreated

SpecCE == CEInit /\ [][CENext]_vars

-----------------------------------------------------------------------------
(* UpdateParallel alone: steps of the physics thread on seeded inputs *)

\* Seeded coordinates and velocities of entity 0: inside the screen, on its
\* bounds and outside, moving either way or not at all.
StepXs == {-10, 0, 3, 400, 780, 790, 800}
StepYs == {0, 120, 238, 240}
StepVXs == {-50, -5, 0, 5, 50}
StepVYs == {-5, 0, 5}

\* Entity 0 as drawn, entity 1 at rest.
StepSeeds ==
    {[MainSeed EXCEPT !.pt = TransformComponent(x, y), !.pv = PhysicsComponent(vx, vy),
                      !.mv = PhysicsComponent(0, 0)] :
        x \in StepXs, y \in StepYs, vx \in StepVXs, vy \in StepVYs}

StepInit ==
    /\ \E s \in StepSeeds : SceneIs(SeedScene(s))
    /\ QueueIsEmpty
    /\ ThreadsAt("loop", "done", "sleep")
    /\ HandshakeFlags(FALSE)
    /\ NoGameObject
    /\ running = TRUE
    /\ g_Run = FALSE /\ g_physicsWork = FALSE /\ g_renderWork = FALSE

StepNext ==
    \/ FRPhysicsLoop \/ FRPhysicsLoad \/ FRPhysicsCopy \/ FRPhysicsIntegrate
    \/ FRPhysicsStore

\* The physics thread of Thread.cpp stepping on its own.
SpecStep == StepInit /\ [][StepNext]_vars

-----------------------------------------------------------------------------
(* part_000: one reference-counted game object handed to two worker threads *)

\* Everything of the scene pipelines, which part_000 does not have.
pipelineVars ==
    <<staticVars, createVars, thVars, callVars, flipVars, pushVars, popVars,
      m_transforms, m_physics, m_healths, m_frontBufferIndex, stepNo, bufGen,
      pFront, rFront, packets, rGenStart, hudLine, tick, running,
      g_physicsWork, g_renderWork>>

\* A member function runs on the object: on a deleted object that is a use
\* after free.
CallOnObject == usedAfterFree' = (usedAfterFree \/ ~objAlive)

\* CBase::AddRect, lines 42-46: under m_mutex, ++m_iRecCount.
AddRect ==
    /\ m_iRecCount' = m_iRecCount + 1
    /\ CallOnObject
    /\ UNCHANGED <<objAlive, releaseEntries, deletedBy>>

\* CBase::Release called by thread who, lines 31-41: under m_mutex, a count
\* of 0 deletes the object, any other count is decremented.
Release(who) ==
    /\ releaseEntries' = releaseEntries \cup {m_iRecCount}
    /\ CallOnObject
    /\ IF m_iRecCount = 0
       THEN /\ objAlive' = FALSE
            /\ deletedBy' = who
            /\ m_iRecCount' = 0
       ELSE /\ m_iRecCount' = m_iRecCount - 1
            /\ UNCHANGED <<objAlive, deletedBy>>

\* The lock_guard of Write on CPhysicsThread::sData.mutex, lines 110-113, is
\* held by main from the push_back to the end of AddRect.
PhysicsMutexHeldByMain_Never == FALSE
PhysicsMutexHeldByMain == mpc = "physics_addrect"

\* The lock_guard of Write on CRenderThread::sData.mutex, lines 188-191.
RenderMutexHeldByMain == mpc = "render_addrect"

\* CGameObject::Update, line 74: "++m_uiUpdateNums" reads the counter...
ObjUpdateRead ==
    /\ mpc = "update_read"
    /\ updReg' = m_uiUpdateNums
    /\ CallOnObject
    /\ mpc' = "update_write"
    /\ UNCHANGED <<pipelineVars, physVars, rpc, rI, g_Run, physVecs, rendVecs, refVars,
                   m_uiUpdateNums, m_uiRenderNums, updateCalls>>

\* ... and writes it back incremented; the call is complete.
ObjUpdateWrite ==
    /\ mpc = "update_write"
    /\ m_uiUpdateNums' = updReg + 1
    /\ updateCalls' = updateCalls + 1
    /\ mpc' = "physics_push"
    /\ UNCHANGED <<pipelineVars, physVars, rpc, rI, g_Run, physVecs, rendVecs, refVars,
                   usedAfterFree, m_uiRenderNums, updReg>>

\* CPhysicsThread::Write, lines 110-111: the lock, then push_back(pObject).
ObjPhysicsWritePush ==
    /\ mpc = "physics_push"
    /\ m_vecReserveGameObjects' = Append(m_vecReserveGameObjects, "pObj")
    /\ mpc' = "physics_addrect"
    /\ UNCHANGED <<pipelineVars, physVars, rpc, rI, g_Run, rendVecs, refVars, countVars,
                   usedAfterFree, m_vecCurrentGameObjects>>

\* CPhysicsThread::Write, line 112: pObject->AddRect(), then the unlock.
ObjPhysicsWriteAddRect ==
    /\ mpc = "physics_addrect"
    /\ AddRect
    /\ mpc' = "render_push"
    /\ UNCHANGED <<pipelineVars, physVars, rpc, rI, g_Run, physVecs, rendVecs, countVars>>

\* CRenderThread::Write, lines 188-189.
ObjRenderWritePush ==
    /\ mpc = "render_push"
    /\ m_vecEnterNums' = Append(m_vecEnterNums, "pObj")
    /\ mpc' = "render_addrect"
    /\ UNCHANGED <<pipelineVars, physVars, rpc, rI, g_Run, physVecs, refVars, countVars,
                   usedAfterFree, m_vecDrawNums>>

\* CRenderThread::Write, line 190.
ObjRenderWriteAddRect ==
    /\ mpc = "render_addrect"
    /\ AddRect
    /\ mpc' = "input"
    /\ UNCHANGED <<pipelineVars, physVars, rpc, rI, g_Run, physVecs, rendVecs, countVars>>

\* main, lines 256-264 and 251: "cin >> a" reads 0 and the loop goes on...
ObjMainInputZero ==
    /\ mpc = "input"
    /\ updateCalls < MaxUpdates
    /\ mpc' = "update_read"
    /\ UNCHANGED <<pipelineVars, physVars, rpc, rI, g_Run, objVars>>

\* ... or reads another number: g_Run = false, and the loop ends.
ObjMainInputStop ==
    /\ mpc = "input"
    /\ g_Run' = FALSE
    /\ mpc' = "join1"
    /\ UNCHANGED <<pipelineVars, physVars, rpc, rI, objVars>>

\* main, line 269: delete pObj.
ObjMainDelete ==
    /\ mpc = "finished"
    /\ objAlive' = FALSE
    /\ deletedBy' = IF objAlive THEN "main" ELSE deletedBy
    /\ CallOnObject
    /\ mpc' = "end"
    /\ UNCHANGED <<pipelineVars, physVars, rpc, rI, g_Run, physVecs, rendVecs, countVars,
                   m_iRecCount, releaseEntries>>

\* "while (g_Run)" in a worker at position pc: g_Run is a plain bool that
\* main writes with no synchronisation, so a worker that reads it after the
\* write may still see true.
WorkerLoop(pc) ==
    /\ pc = "loop"
    /\ \/ pc' = "swap"
       \/ ~g_Run /\ pc' = "done"

\* CPhysicsThread::Progress, line 134.
ObjPhysicsLoop ==
    /\ WorkerLoop(ppc)
    /\ UNCHANGED <<pipelineVars, pI, rpc, rI, mpc, g_Run, objVars>>

\* CPhysicsThread::Progress, lines 136-141 and 150: under sData.mutex the
\* two vectors are swapped; an empty current vector leads to the sleep.
ObjPhysicsSwap ==
    /\ ppc = "swap"
    /\ ~PhysicsMutexHeldByMain
    /\ m_vecReserveGameObjects' = m_vecCurrentGameObjects
    /\ m_vecCurrentGameObjects' = m_vecReserveGameObjects
    /\ pI' = 1
    /\ ppc' = IF m_vecReserveGameObjects = <<>> THEN "loop" ELSE "fixed"
    /\ UNCHANGED <<pipelineVars, rpc, rI, mpc, g_Run, rendVecs, refVars, countVars,
                   usedAfterFree>>

\* CGameObject::FixedUpdate, line 78, called at line 145:
\* m_uiRenderNums = m_uiRenderNums + m_uiUpdateNums.
ObjFixedUpdateAdd ==
    /\ ppc = "fixed"
    /\ m_uiRenderNums' = m_uiRenderNums + m_uiUpdateNums
    /\ CallOnObject
    /\ ppc' = "zero"
    /\ UNCHANGED <<pipelineVars, pI, rpc, rI, mpc, g_Run, physVecs, rendVecs, refVars,
                   m_uiUpdateNums, updReg, updateCalls>>

\* CGameObject::FixedUpdate, line 79: m_uiUpdateNums = 0.
ObjFixedUpdateZero ==
    /\ ppc = "zero"
    /\ m_uiUpdateNums' = 0
    /\ ppc' = "release"
    /\ UNCHANGED <<pipelineVars, pI, rpc, rI, mpc, g_Run, physVecs, rendVecs, refVars,
                   usedAfterFree, m_uiRenderNums, updReg, updateCalls>>

\* CPhysicsThread::Progress, lines 146-150: pObj->Release(); after the last
\* pointer the vector is cleared and the thread sleeps.
ObjPhysicsRelease ==
    /\ ppc = "release"
    /\ Release("physics")
    /\ IF pI < Len(m_vecCurrentGameObjects)
       THEN /\ pI' = pI + 1
            /\ ppc' = "fixed"
            /\ UNCHANGED m_vecCurrentGameObjects
       ELSE /\ pI' = 1
            /\ ppc' = "loop"
            /\ m_vecCurrentGameObjects' = <<>>
    /\ UNCHANGED <<pipelineVars, rpc, rI, mpc, g_Run, rendVecs, countVars,
                   m_vecReserveGameObjects>>

\* CRenderThread::Progress, line 199.
ObjRenderLoop ==
    /\ WorkerLoop(rpc)
    /\ UNCHANGED <<pipelineVars, physVars, rI, mpc, g_Run, objVars>>

\* CRenderThread::Progress, lines 201-209 and 220: under sData.mutex the
\* vectors are swapped if pointers have entered.
ObjRenderSwap ==
    /\ rpc = "swap"
    /\ ~RenderMutexHeldByMain
    /\ IF m_vecEnterNums # <<>>
       THEN /\ m_vecDrawNums' = m_vecEnterNums
            /\ m_vecEnterNums' = m_vecDrawNums
       ELSE UNCHANGED <<m_vecDrawNums, m_vecEnterNums>>
    /\ rI' = 1
    /\ rpc' = IF m_vecDrawNums' = <<>> THEN "loop" ELSE "render"
    /\ UNCHANGED <<pipelineVars, physVars, mpc, g_Run, physVecs, refVars, countVars,
                   usedAfterFree>>

\* CGameObject::Render, line 70, called at line 214: prints m_uiRenderNums.
ObjRender ==
    /\ rpc = "render"
    /\ CallOnObject
    /\ rpc' = "release"
    /\ UNCHANGED <<pipelineVars, physVars, rI, mpc, g_Run, physVecs, rendVecs, refVars,
                   countVars>>

\* CRenderThread::Progress, lines 215-220.
ObjRenderRelease ==
    /\ rpc = "release"
    /\ Release("render")
    /\ IF rI < Len(m_vecDrawNums)
       THEN /\ rI' = rI + 1
            /\ rpc' = "render"
            /\ UNCHANGED m_vecDrawNums
       ELSE /\ rI' = 1
            /\ rpc' = "loop"
            /\ m_vecDrawNums' = <<>>
    /\ UNCHANGED <<pipelineVars, physVars, mpc, g_Run, physVecs, countVars,
                   m_vecEnterNums>>

\* main, lines 242-250: both workers run and the object has been created.
ObjInit ==
    /\ SceneIs(EmptyScene)
    /\ QueueIsEmpty
    /\ ThreadsAt("loop", "loop", "update_read")
    /\ HandshakeFlags(FALSE)
    /\ running = FALSE
    /\ g_Run = TRUE /\ g_physicsWork = FALSE /\ g_renderWork = FALSE
    /\ objAlive = TRUE
    /\ m_iRecCount = 0
    /\ m_uiUpdateNums = 0
    /\ m_uiRenderNums = 0
    /\ m_vecReserveGameObjects = <<>>
    /\ m_vecCurrentGameObjects = <<>>
    /\ m_vecEnterNums = <<>>
    /\ m_vecDrawNums = <<>>
    /\ updReg = 0
    /\ updateCalls = 0
    /\ releaseEntries = {}
    /\ deletedBy = "none"
    /\ usedAfterFree = FALSE

ObjNext ==
    \/ ObjUpdateRead \/ ObjUpdateWrite
    \/ ObjPhysicsWritePush \/ ObjPhysicsWriteAddRect
    \/ ObjRenderWritePush \/ ObjRenderWriteAddRect
    \/ ObjMainInputZero \/ ObjMainInputStop
    \/ MainJoinPhysics \/ MainJoinRender \/ ObjMainDelete
    \/ ObjPhysicsLoop \/ ObjPhysicsSwap \/ ObjFixedUpdateAdd \/ ObjFixedUpdateZero
    \/ ObjPhysicsRelease
    \/ ObjRenderLoop \/ ObjRenderSwap \/ ObjRender \/ ObjRenderRelease

\* part_000: main, the physics thread and the render thread.
SpecObj == ObjInit /\ [][ObjNext]_vars

-----------------------------------------------------------------------------
(* UpdateParallel on the seeds of main: the bounces of P and M *)

\* tPhysics: "while (running.load())", another step of the scenario.
BouncePhysicsLoop ==
    /\ ppc = "loop"
    /\ running
    /\ stepNo < MaxBounceSteps
    /\ ppc' = "load"
    /\ UNCHANGED <<callVars, flipVars, objVars, staticVars, createVars, thVars, rendVars, mainVars, flagVars, pushVars, popVars,
                   m_transforms, m_physics, m_healths, m_frontBufferIndex,
                   pI, pFront, stepNo, bufGen>>

BounceInit ==
    /\ SceneIs(SeedScene(MainSeed))
    /\ QueueIsEmpty
    /\ ThreadsAt("loop", "done", "sleep")
    /\ HandshakeFlags(FALSE)
    /\ NoGameObject
    /\ running = TRUE
    /\ g_Run = FALSE /\ g_physicsWork = FALSE /\ g_renderWork = FALSE

BounceNext ==
    \/ BouncePhysicsLoop \/ FRPhysicsLoad \/ FRPhysicsCopy \/ FRPhysicsIntegrate
    \/ FRPhysicsStore

\* The physics thread of Thread.cpp stepping the scene main has seeded.
SpecBounce == BounceInit /\ [][BounceNext]_vars

-----------------------------------------------------------------------------
(* CollectParallel alone: passes of the render thread on seeded inputs *)

\* Seeded glyphs: a letter, the blank and RenderComponent's default.
PassGlyphs == {"@", " ", NulSymbol}
\* Seeded x coordinates: left of the screen, on it, and right of it.
PassXs == {-5, 0, 405, 795}

\* Two created entities with drawn glyphs and positions, the third slot
\* inactive.
PassScenes ==
    {SeedEntity(SeedEntity(EmptyScene, TransformComponent(x0, 120), MainSeed.pv, g0, 100),
                TransformComponent(x1, 50), MainSeed.mv, g1, 50) :
        x0 \in PassXs, x1 \in PassXs, g0 \in PassGlyphs, g1 \in PassGlyphs}

PassInit ==
    /\ \E sc \in PassScenes : SceneIs(sc)
    /\ QueueIsEmpty
    /\ ThreadsAt("done", "loop", "sleep")
    /\ HandshakeFlags(FALSE)
    /\ NoGameObject
    /\ running = TRUE
    /\ g_Run = FALSE /\ g_physicsWork = FALSE /\ g_renderWork = FALSE

PassNext ==
    \/ FRRenderLoop \/ FRRenderCollect \/ FRRenderRead \/ FRRenderDraw
    \/ FRRenderHud

\* The render thread of Thread.cpp collecting on its own.
SpecPass == PassInit /\ [][PassNext]_vars

-----------------------------------------------------------------------------
(* part_001 on main's seeds, on the schedule the 16 ms tick is meant to
   give: every request is granted, the render thread keeps up (the frame a
   step has published is collected before the next step starts), and passes
   may run at any moment of a step.  What a read at any other moment would
   see is what some state of this run holds in one of the two buffers. *)

\* The frame now published has been collected by a finished pass.
FrameCollected == rpc = "loop" /\ rGenStart = bufGen[m_frontBufferIndex]

\* CPhysicsThread::Run, lines 273-280, with a request pending.
ScenarioPhysicsBegin ==
    /\ ppc = "loop"
    /\ stepNo < MaxScenarioSteps
    /\ FrameCollected
    /\ BeginStep
    /\ UNCHANGED <<callVars, flipVars, objVars, staticVars, createVars, thVars, rendVars, mainVars, flagVars, pushVars, popVars,
                   m_transforms, m_physics, m_healths, m_frontBufferIndex, bufGen>>

\* CPhysicsThread::Run, lines 283-289, back to the head of the loop.
ScenarioPhysicsEnd ==
    /\ ppc = "signal"
    /\ ppc' = "loop"
    /\ UNCHANGED <<callVars, flipVars, objVars, staticVars, createVars, thVars, rendVars, mainVars, flagVars, pushVars, popVars,
                   m_transforms, m_physics, m_healths, m_frontBufferIndex,
                   pI, pFront, stepNo, bufGen>>

\* CRenderThread::Run, lines 297-304, with a request pending.
ScenarioRenderBegin ==
    /\ rpc = "loop"
    /\ BeginPass
    /\ UNCHANGED <<callVars, flipVars, objVars, staticVars, createVars, thVars, physVars, mainVars, flagVars, pushVars, popVars,
                   m_transforms, m_physics, m_healths, m_frontBufferIndex,
                   stepNo, bufGen>>

\* CRenderThread::Run, lines 305-311, back to the head of the loop.
ScenarioRenderEnd ==
    /\ rpc = "draw"
    /\ rpc' = "loop"
    /\ UNCHANGED <<callVars, flipVars, objVars, staticVars, createVars, thVars, physVars, mainVars, flagVars, pushVars, popVars,
                   m_transforms, m_physics, m_healths, m_frontBufferIndex,
                   stepNo, bufGen, rI, rFront, packets, rGenStart, hudLine>>

ScenarioInit ==
    /\ SceneIs(SeedScene(MainSeed))
    /\ QueueIsEmpty
    /\ ThreadsAt("loop", "loop", "sleep")
    /\ HandshakeFlags(FALSE)
    /\ NoGameObject
    /\ g_Run = TRUE
    /\ g_physicsWork = FALSE /\ g_renderWork = FALSE
    /\ running = FALSE

ScenarioNext ==
    \/ ScenarioPhysicsBegin \/ HSPhysicsCopy \/ HSPhysicsIntegrate
    \/ HSPhysicsSwap \/ ScenarioPhysicsEnd
    \/ ScenarioRenderBegin \/ HSRenderRead \/ ScenarioRenderEnd

\* The end-to-end scenario of part_001.
SpecScenario == ScenarioInit /\ [][ScenarioNext]_vars

-----------------------------------------------------------------------------
(* Properties of the free-running pipeline *)

\* The render pass has read a slot of its buffer and has slots left to read.
RenderMidPass == rpc = "read" /\ rI > NextActive(0)

\* The physics step has written into its back buffer and has writes left.
PhysicsMidStep == ppc = "integrate" \/ (ppc = "copy" /\ pI > NextActive(0))

\* C1: in the free-running pipeline the render thread is never part-way
\* through reading a position buffer while the physics thread is part-way
\* through writing that same buffer.
C1_NoBufferOverlap == ~(RenderMidPass /\ PhysicsMidStep /\ rFront = 1 - pFront)

-----------------------------------------------------------------------------
(* Properties of the physics step *)

\* The integration step of the entity at pI.
IntegrateStepTaken == ppc = "integrate" /\ ppc' # "integrate"

\* One axis of the boundary policy: from coordinate c of the current buffer
\* and velocity v to the next-buffer coordinate c2 and the velocity v2.
AxisPolicy(c, v, max, c2, v2) ==
    IF c + v < 0 THEN c2 = 0 /\ v2 = -v
    ELSE IF c + v > max THEN c2 = max /\ v2 = -v
    ELSE c2 = c + v /\ v2 = v

Outside(c, max) == c < 0 \/ c > max

\* C4: one step of UpdateParallel takes every moving active entity through
\* the integration, which on each axis on its own clamps an integrated
\* coordinate outside the screen to the nearest bound, negates that axis's
\* velocity and pushes one CollisionEvent{entity, MAX_ENTITIES}, and otherwise
\* stores current + velocity, keeps the velocity and pushes nothing.
C4_BoundaryPolicy ==
    [][/\ (ppc = "copy" /\ ppc' # "copy" /\ Moving(m_physics[pI])) =>
              (ppc' = "integrate" /\ pI' = pI)
       /\ IntegrateStepTaken =>
            LET cur == m_transforms[pFront][pI]
                nxt == m_transforms'[1 - pFront][pI]
                v   == m_physics[pI]
                v2  == m_physics'[pI]
                n   == (IF Outside(cur.x + v.vx, XMax) THEN 1 ELSE 0)
                       + (IF Outside(cur.y + v.vy, YMax) THEN 1 ELSE 0)
            IN  /\ AxisPolicy(cur.x, v.vx, XMax, nxt.x, v2.vx)
                /\ AxisPolicy(cur.y, v.vy, YMax, nxt.y, v2.vy)
                /\ m_queue' = m_queue \o [k \in 1..n |-> CollisionEvent(pI, MAX_ENTITIES)]]_vars

\* x = 78 with vx = 5 and y staying inside: the first step has put x = 79
\* into the next buffer, made vx = -5 and pushed exactly one event.
C4_Witness ==
    /\ stepNo = 1 /\ ppc = "publish"
    /\ m_transforms[pFront][0].x = 780
    /\ m_transforms[1 - pFront][0].x = 790
    /\ m_physics[0].vx = -50
    /\ pushed = <<CollisionEvent(0, MAX_ENTITIES)>>

-----------------------------------------------------------------------------
(* Properties of the end-to-end scenario *)

\* A packet on the 80 x 25 screen.
PacketOnScreen(pk) ==
    /\ pk.x >= 0 /\ pk.x <= XMax \div 10
    /\ pk.y >= 0 /\ pk.y <= YMax \div 10

\* C9: in the end-to-end scenario of part_001 every draw packet has
\* 0 <= x <= 79 and 0 <= y <= 24: the packets of the pass, and the packet a
\* read of either buffer would make of any visible entity at this moment.
C9_PacketsOnScreen ==
    /\ \A k \in 1..Len(packets) : PacketOnScreen(packets[k])
    /\ \A b \in 0..1 : \A e \in Entities :
          (m_entity_active[e] /\ VisibleCollect(m_renders[e]))
              => PacketOnScreen(RenderPacket(m_renders[e], m_transforms[b][e]))

\* A finished pass has collected M after it overshot the left wall: the
\* position is below 0 and the packet is at column 0.
C9_Witness ==
    /\ rpc = "draw"
    /\ Len(packets) = 2
    /\ m_transforms[rFront][1].x < 0
    /\ packets[2] = [symbol |-> "M", x |-> 0, y |-> TruncToInt(m_transforms[rFront][1].y)]

-----------------------------------------------------------------------------
(* Properties of the handshake pipeline *)

\* C2: in the handshake pipeline no render snapshot is torn: when a Collect
\* pass ends, the buffer it read carries the generation (the number of the
\* physics step that last wrote into it) it carried when the pass started.
C2_NoTornSnapshot ==
    [][(rpc = "read" /\ rpc' = "draw") => (bufGen[rFront] = rGenStart)]_vars


\* C5: once main has cleared g_Run, set both work flags under the lock and
\* called notify_all, both workers leave their loops and both joins return,
\* whatever the workers were doing (running a step, blocked in the wait, or
\* about to test the wait predicate).
C5_ShutdownTerminates ==
    (mpc = "join1") ~> (ppc = "done" /\ rpc = "done" /\ mpc = "finished")

\* Both workers are blocked in the wait, on predicates tested before g_Run was
\* cleared, and main is about to call notify_all.
C5_Witness ==
    /\ mpc = "stopnotify" /\ ~g_Run
    /\ ppc = "blocked" /\ rpc = "blocked"

-----------------------------------------------------------------------------
(* Properties of the event queue and of the damage drain *)

\* A step of the main thread's drain loop: it returns or it pops an event.
DrainStepTaken == mpc = "drain" /\ (mpc' # mpc \/ popped' # popped)

\* A drain step that pops a wall hit of entity e.
WallHitPopped(e) ==
    /\ popped' # popped
    /\ popped'[Len(popped')] = CollisionEvent(e, MAX_ENTITIES)

Floor0(n) == IF n > 0 THEN n ELSE 0

\* C3: the events the pops have returned, followed by the events still
\* queued, are exactly the events pushed, in push order: the popped sequence
\* is a prefix of the pushed one, nothing lost, duplicated or reordered.
C3_StrictFifo == popped \o m_queue = pushed

\* Two different events were popped in push order while a third waits.
C3_Witness ==
    /\ Len(popped) >= 2 /\ popped[1] # popped[2]
    /\ m_queue # <<>> /\ m_queue[1] # popped[2]

\* C6: every health stays within [0, its seed]; a drain step changes a health
\* only by a wall hit on a positive health, which lowers it by Penalty,
\* floored at 0; no other step changes a health.
C6_HealthBounded ==
    /\ [](\A e \in Entities : m_healths[e] >= 0 /\ m_healths[e] <= seedHealth[e])
    /\ [][\A e \in Entities :
            IF DrainStepTaken /\ WallHitPopped(e) /\ m_healths[e] > 0
            THEN m_healths'[e] = Floor0(m_healths[e] - Penalty)
            ELSE m_healths'[e] = m_healths[e]]_vars

\* An entity seeded with health 5 has taken a wall hit and is at 0.
C6_Witness ==
    \E r \in 1..Len(hitLog) :
        seedHealth[hitLog[r].a] = 5 /\ hitLog[r].hp = 0 /\ m_healths[hitLog[r].a] = 0

\* C7: when a drain call has returned and nothing was pushed since, the queue
\* is empty, and the next call's first pop returns Empty: the call pops no
\* event, changes no health, prints nothing and returns.
C7_DrainIdempotent ==
    /\ []((drainReturned /\ ~pushedSinceReturn) => m_queue = <<>>)
    /\ [][(DrainStepTaken /\ drainReturned /\ ~pushedSinceReturn) =>
            /\ lastPop' = NullOpt /\ popped' = popped
            /\ m_healths' = m_healths /\ hitLog' = hitLog
            /\ mpc' # "drain"]_vars

\* A call that popped events has returned, nothing was pushed since, and the
\* next call has returned too.
C7_Witness ==
    /\ idleDrain /\ mpc = "sleep"
    /\ popped # <<>> /\ lastPop = NullOpt

\* C8 as claimed: every drained wall hit prints a line, whatever the health,
\* and leaves a health of 0 at 0.
C8_EveryHitReported ==
    [][\A e \in Entities : (DrainStepTaken /\ WallHitPopped(e)) =>
            /\ Len(hitLog') = Len(hitLog) + 1
            /\ (m_healths[e] = 0 => m_healths'[e] = 0)]_vars

\* C8 as amended: a drained wall hit prints a line, with the new health,
\* exactly when the health was positive; at health 0 it leaves the health at
\* 0 and prints nothing.
C8_HitReportedWhileAlive ==
    [][\A e \in Entities : (DrainStepTaken /\ WallHitPopped(e)) =>
            /\ (m_healths[e] > 0 =>
                    hitLog' = Append(hitLog, [a |-> e, hp |-> m_healths'[e]]))
            /\ (m_healths[e] = 0 => (m_healths'[e] = 0 /\ hitLog' = hitLog))]_vars

\* Wall hits of entity e popped so far, and lines printed for it.
WallHitsPopped(e) ==
    Cardinality({k \in 1..Len(popped) : popped[k] = CollisionEvent(e, MAX_ENTITIES)})
LinesPrinted(e) == Cardinality({k \in 1..Len(hitLog) : hitLog[k].a = e})

\* An entity at health 0 has had more wall hits drained than lines printed.
C8_Witness ==
    \E e \in Entities :
        m_healths[e] = 0 /\ LinesPrinted(e) >= 1 /\ WallHitsPopped(e) > LinesPrinted(e)

\* C10: TryPop never blocks: the main thread's pop can always be taken, also
\* on an empty queue; on an empty queue it returns Empty and leaves the queue
\* as it is, otherwise it removes and returns exactly the head.
C10_TryPopNeverBlocks ==
    /\ [](mpc = "drain" => ENABLED MainDrainAndApply)
    /\ [][DrainStepTaken =>
            IF m_queue = <<>>
            THEN lastPop' = NullOpt /\ m_queue' = m_queue
            ELSE lastPop' = <<Head(m_queue)>> /\ m_queue' = Tail(m_queue)]_vars

\* A pop on an empty queue has returned Empty although nothing was ever
\* pushed.
C10_Witness == lastPop = NullOpt /\ drainReturned /\ pushed = <<>> /\ mpc = "sleep"

-----------------------------------------------------------------------------
(* Properties of EventQueue::WaitPop *)

\* C11: WaitPop never returns while the queue is empty, what it returns is
\* the head of the queue, which it removes; and a thread in WaitPop with an
\* event in the queue (a thread that was blocked and has been notified by a
\* Push) returns.
C11_WaitPopReturnsHead ==
    /\ [][(mpc # "popreturned" /\ mpc' = "popreturned") =>
            /\ m_queue # <<>>
            /\ lastPop' = <<Head(m_queue)>>
            /\ m_queue' = Tail(m_queue)]_vars
    /\ ((mpc \in {"waitpop", "popblocked"} /\ m_queue # <<>>) ~> (mpc = "popreturned"))

\* The thread has returned events before, then blocked on an empty queue
\* with nothing returned, and a Push has put an event in and woken it.
C11_Witness ==
    /\ mpc = "waitpop" /\ lastPop = NullOpt
    /\ popped # <<>> /\ m_queue # <<>>

-----------------------------------------------------------------------------
(* Properties of Scene::CreateEntity *)

\* A call of CreateEntity.
CreateEntityCalled == created' # created

AllActive == \A e \in Entities : m_entity_active[e]

\* C12: CreateEntity called when every slot is active returns MAX_ENTITIES,
\* which is no valid entity id, and leaves the flag table and the component
\* tables as they are.
C12_NoCapacityOutcome ==
    [][(CreateEntityCalled /\ AllActive) =>
            /\ created'[Len(created')] = MAX_ENTITIES
            /\ MAX_ENTITIES \notin Entities
            /\ UNCHANGED <<m_entity_active, m_transforms, m_physics, m_renders,
                           m_healths>>]_vars

\* A call on a full table has returned MAX_ENTITIES.
C12_Witness ==
    /\ AllActive /\ Len(created) >= 2
    /\ created[Len(created)] = MAX_ENTITIES
    /\ created[Len(created) - 1] = MAX_ENTITIES

\* C13: CreateEntity called with an inactive slot returns the smallest
\* inactive id, which was not active, marks that slot active and changes no
\* other flag; successive ids returned are increasing.
C13_SmallestInactive ==
    /\ [][(CreateEntityCalled /\ ~AllActive) =>
            LET id == created'[Len(created')]
            IN  /\ id \in Entities
                /\ ~m_entity_active[id]
                /\ \A j \in Entities : j < id => m_entity_active[j]
                /\ m_entity_active' = [m_entity_active EXCEPT ![id] = TRUE]]_vars
    /\ [](\A k \in 1..(Len(created) - 1) :
            created[k] < created[k + 1] \/ created[k + 1] = MAX_ENTITIES)

\* Two calls on a table with a hole: 0, then 2 past the active slot 1.
C13_Witness ==
    /\ Len(created) >= 2
    /\ created[1] = 0 /\ created[2] = 2
    /\ m_entity_active[0] /\ m_entity_active[1] /\ m_entity_active[2]

-----------------------------------------------------------------------------
(* Properties of the render pass *)

\* A glyph that is rendered: neither the null nor the empty sentinel.
VisibleGlyph(sym) == sym # NulSymbol /\ sym # " "

\* The active entities with a visible glyph.
VisibleEntities == {e \in Entities : m_entity_active[e] /\ VisibleGlyph(m_renders[e])}

\* The k-th of them in increasing id order.
KthVisible(k) ==
    CHOOSE e \in VisibleEntities : Cardinality({d \in VisibleEntities : d < e}) = k - 1

\* C14: the packets of a finished pass are one packet for each active
\* entity with a visible glyph and no other, in increasing id order, each the
\* truncation of the entity's position in the buffer the pass loaded; the
\* pass changes no scene state.
C14_OnePacketPerVisible ==
    /\ [](rpc = "draw" =>
            /\ Len(packets) = Cardinality(VisibleEntities)
            /\ \A k \in 1..Cardinality(VisibleEntities) :
                  k <= Len(packets) =>
                      packets[k] = RenderPacket(m_renders[KthVisible(k)],
                                                m_transforms[rFront][KthVisible(k)]))
    /\ [][(rpc = "collect" \/ rpc = "read") =>
            (UNCHANGED <<m_entity_active, m_transforms, m_physics, m_renders,
                         m_healths, m_frontBufferIndex>>)]_vars

\* C15: the read of an active entity whose glyph is RenderComponent's
\* default '\0' appends no packet in CollectParallel.
C15_NulGlyphNotCollected ==
    [][(rpc = "read" /\ m_renders[rI] = NulSymbol) => packets' = packets]_vars

-----------------------------------------------------------------------------
(* Properties of Thread.cpp's handshake physics thread *)

\* C16: each iteration of CPhysicsThread::Run flips the front index exactly
\* once: when the iteration signals g_physicsDone, the front index designates
\* the buffer the step has just written, the back buffer of the step's start.
C16_FlipsOncePerIteration ==
    [][(ppc = "signal" /\ ppc' = "notify") =>
            (m_frontBufferIndex = 1 - pFront /\ g_physicsDone')]_vars

-----------------------------------------------------------------------------
(* Properties of part_001's requests *)

\* C17: the physics thread consumes its request before the step: when
\* Update starts g_physicsWork has been cleared, and the end of the step
\* leaves g_physicsWork as it is, so that a request raised while the step
\* ran is still pending.
C17_RequestConsumedFirst ==
    [][/\ (ppc = "check" /\ ppc' # "check" /\ ppc' # "done") => ~g_physicsWork'
       /\ (ppc = "signal" /\ ppc' = "notify") => (g_physicsWork' = g_physicsWork)]_vars

\* The number of the last physics step that has published its buffer and set
\* the render request.
SignalledStep ==
    IF ppc \in {"copy", "integrate", "publish", "signal"} THEN stepNo - 1 ELSE stepNo

\* C18: the render request physics sets at a publication is never lost:
\* while g_Run is true and no pass has started on the published frame or a
\* later one, g_renderWork stays set, so that such a pass takes place.
C18_RenderRequestKept ==
    (g_Run /\ SignalledStep > rGenStart) => g_renderWork

-----------------------------------------------------------------------------
(* Properties of the publication of a step *)

\* The front index changes.
FrontIndexStored == m_frontBufferIndex' # m_frontBufferIndex

\* One axis of a slot the step has finished: next is current plus the
\* velocity, or the step bounced (the velocity was negated, so the integrated
\* coordinate current - velocity was outside) and next is on a bound.
AxisWritten(cur, nxt, v, max) ==
    \/ nxt = cur + v
    \/ (nxt \in {0, max} /\ Outside(cur - v, max))

\* The step has written the final value of slot e of its back buffer.
SlotWritten(e) ==
    LET cur == m_transforms[pFront][e]
        nxt == m_transforms[1 - pFront][e]
    IN  IF Moving(m_physics[e])
        THEN /\ AxisWritten(cur.x, nxt.x, m_physics[e].vx, XMax)
             /\ AxisWritten(cur.y, nxt.y, m_physics[e].vy, YMax)
        ELSE nxt = cur

\* C19: UpdateParallel stores the new front index b only when its loop has
\* ended and the slot of every active entity in buffer b holds the step's
\* final value: no slot of b still awaits the step's write.
C19_StoreAfterAllWrites ==
    [][FrontIndexStored =>
            /\ ppc = "publish" /\ pI = MAX_ENTITIES
            /\ m_frontBufferIndex' = 1 - pFront
            /\ bufGen[1 - pFront] = stepNo
            /\ \A e \in Entities : m_entity_active[e] => SlotWritten(e)]_vars

\* The second step has just stored the front index and the render thread is
\* about to load it.
C19_Witness ==
    /\ stepNo = 2 /\ ppc = "loop"
    /\ m_frontBufferIndex = 1 - pFront
    /\ rpc = "collect"

-----------------------------------------------------------------------------
(* Properties of part_001's shutdown *)

\* A physics step, a render pass begins.
StepBegins == stepNo' # stepNo
PassBegins == rpc = "check" /\ rpc' # "check" /\ rpc' # "done"

\* C20: once main has cleared g_Run no worker passes its g_Run test again:
\* no further step or pass begins, only the one step and the one pass that
\* had passed the test run to their end; and a worker that comes out of its
\* wait with g_Run false exits at once, running nothing and leaving both
\* pending flags as they are.
C20_BoundedShutdown ==
    [][/\ ~g_Run => (~StepBegins /\ ~PassBegins)
       /\ (ppc = "check" /\ ppc' # "check" /\ ~g_Run) =>
              (ppc' = "done" /\ UNCHANGED <<g_physicsWork, g_renderWork, m_transforms>>)
       /\ (rpc = "check" /\ rpc' # "check" /\ ~g_Run) =>
              (rpc' = "done" /\ UNCHANGED <<g_physicsWork, g_renderWork, packets>>)]_vars

\* Both workers have exited and both joins have returned with both flags
\* of the shutdown still pending.
C20_Witness ==
    /\ mpc = "finished" /\ ~g_Run
    /\ ppc = "done" /\ rpc = "done"
    /\ g_physicsWork /\ g_renderWork

-----------------------------------------------------------------------------
(* Properties of part_001's positions *)

\* A position on the screen, [0,79] x [0,24].
OnScreen(t) == t.x >= 0 /\ t.x <= XMax /\ t.y >= 0 /\ t.y <= YMax

\* C21: in part_001 every position of an active entity, in the current and
\* in the next buffer, is inside [0,79] x [0,24]: from a position inside,
\* Update writes a position inside.
C21_PositionsOnScreen ==
    \A b \in 0..1 : \A e \in Entities :
        m_entity_active[e] => OnScreen(m_transforms[b][e])

-----------------------------------------------------------------------------
(* Properties of the data shared by Thread.cpp's free-running threads *)

\* The render thread is at Draw's read of healths[e].
DrawReadsHealth(e) == rpc = "hud" /\ rI = e

\* C22: the health table written by DrainAndApply on the main thread is not
\* read by any other thread: no step writes the health of an entity while
\* the render thread is at its read of that health.
C22_HealthsNotShared ==
    [][\A e \in Entities :
        m_healths'[e] # m_healths[e] => ~DrawReadsHealth(e)]_vars

-----------------------------------------------------------------------------
(* Properties of the length of one drain call *)

-----------------------------------------------------------------------------
(* Properties of the entities at rest *)

\* The physics step is at the copy of entity e, which has zero velocity.
CopyAtRest(e) == ppc = "copy" /\ pI = e /\ ~Moving(m_physics[e])

\* C24: for an active entity with zero velocity a physics step writes the
\* current position to the next buffer and changes no velocity and pushes no
\* event, and it goes on to the next entity without integrating; the
\* entity seeded at rest is at its seeded position in the current buffer
\* after any number of steps.
C24_RestingEntityStays ==
    /\ [][\A e \in Entities : CopyAtRest(e) =>
            /\ m_transforms'[1 - pFront][e] = m_transforms[pFront][e]
            /\ m_transforms'[pFront] = m_transforms[pFront]
            /\ m_physics' = m_physics
            /\ pushed' = pushed /\ m_queue' = m_queue
            /\ ppc' # "integrate"]_vars
    /\ [](m_transforms[m_frontBufferIndex][1] = MainSeed.mt)
    /\ [](~Moving(m_physics[1]))

\* Three steps have run and the entity at rest is in the buffer the last of
\* them wrote.
C24_Witness ==
    /\ stepNo = MaxSteps /\ ppc = "loop" /\ m_frontBufferIndex = 1
    /\ m_entity_active[1] /\ ~Moving(m_physics[1])
    /\ m_transforms[1][1] = MainSeed.mt

-----------------------------------------------------------------------------
(* Properties of M's bounces under UpdateParallel *)

\* The physics step is at the integration of M, the second entity seeded.
MIntegrates == ppc = "integrate" /\ pI = 1

\* The x coordinate M's integration reaches before the boundary tests.
MIntegratedX == m_transforms[1 - pFront][1].x + m_physics[1].vx

\* C25: M's x velocity changes sign in a step exactly when the integrated x
\* of that step is outside [0,79], it is then negated once, no other step
\* changes it, and it never changes sign in two consecutive steps.
C25_FlipsOnlyAtWalls ==
    [][/\ MIntegrates =>
            /\ (MIntegratedX < 0 \/ MIntegratedX > XMax)
                    => /\ m_physics'[1].vx = 0 - m_physics[1].vx
                       /\ m_physics[1].vx # 0
                       /\ vxFlipStep'[1] = stepNo
                       /\ (vxFlipStep[1] = 0 \/ vxFlipStep[1] < stepNo - 1)
            /\ (MIntegratedX >= 0 /\ MIntegratedX <= XMax)
                    => /\ m_physics'[1].vx = m_physics[1].vx
                       /\ vxFlipStep'[1] = vxFlipStep[1]
       /\ ~MIntegrates => /\ m_physics'[1] = m_physics[1]
                          /\ vxFlipStep'[1] = vxFlipStep[1]]_vars

\* M has bounced off the left wall and then off the right wall, and moves
\* left again.
C25_Witness ==
    /\ ppc = "loop" /\ vxFlipStep[1] > 0 /\ m_physics[1].vx < 0
    /\ Len(SelectSeq(pushed, LAMBDA ev : ev.a = 1)) >= 2

-----------------------------------------------------------------------------
(* Properties of part_000's game object *)

\* C26: CBase::Release is never entered with a reference count of 0, so no
\* worker thread deletes the game object: it is deleted by main only, after
\* both joins, and no member function runs on it once it is deleted.
C26_ObjectOutlivesWorkers ==
    /\ 0 \notin releaseEntries
    /\ deletedBy \in {"none", "main"}
    /\ objAlive <=> deletedBy = "none"
    /\ deletedBy = "main" => (ppc = "done" /\ rpc = "done" /\ mpc = "end")
    /\ ~usedAfterFree

\* Both workers have released pointers of all three rounds, have ended, and
\* main has deleted the object.
C26_Witness ==
    /\ mpc = "end" /\ deletedBy = "main" /\ updateCalls = MaxUpdates
    /\ releaseEntries # {} /\ m_iRecCount = 0
    /\ m_vecReserveGameObjects = <<>> /\ m_vecEnterNums = <<>>

\* Neither Update nor FixedUpdate is between its read and its last write.
Quiescent == mpc # "update_write" /\ ppc # "zero"

\* C27: no update is lost: whenever no Update and no FixedUpdate is in
\* progress, m_uiRenderNums + m_uiUpdateNums is the number of completed
\* Update() calls.
C27_NoUpdateLost ==
    Quiescent => m_uiRenderNums + m_uiUpdateNums = updateCalls

=============================================================================
